---- MODULE Spec2Model ----
(***************************************************************************)
(* Model of the FinancialAgentia python backend:                           *)
(*   - MessageHistory (dexter_py/utils/message_history.py): turn storage,  *)
(*     id counter, pruning, persistence;                                   *)
(*   - ReflectionAnalyzer, InMemorySessionStore and Orchestrator.run        *)
(*     (dexter_py/agent/orchestrator.py).                                  *)
(*   - TaskExecutor.execute_tasks (dexter_py/agent/task_executor.py);      *)
(*   - RelevanceSelector.select (dexter_py/utils/message_history.py).      *)
(* Concurrency is asyncio's: one event loop, a coroutine runs until it     *)
(* awaits something that really suspends.  Each action below is one such   *)
(* uninterrupted stretch of a coroutine.                                   *)
(***************************************************************************)
EXTENDS Integers, Sequences, FiniteSets, TLC

\* ------------------------------------------------------------------ bounds
MaxThreshold == 3      \* largest prune_threshold configured
MaxAdds == 5           \* add_message calls made on one MessageHistory
NumTasks == 2          \* coroutines that may use one MessageHistory
MaxIterations == 5     \* largest max_iterations given to should_continue
MaxRunIterations == 2  \* largest max_iterations an Orchestrator is built with
MaxClears == 1         \* clear_session calls
MaxPlanTasks == 3      \* tasks of a plan given to execute_tasks
MaxConcurrentAdds == 3 \* add_message calls made by the concurrent coroutines
MaxSelectLen == 3      \* turns of a memory given to select_relevant_messages
MaxTouches == 2        \* changes the phases of a run make to the history they are given
MaxEmbedCalls == 3     \* embed and embed_batch calls on one CachedEmbeddingProvider
MaxFailures == 3       \* requests of one call_llm the provider fails

VARIABLES
    \* --- MessageHistory ---------------------------------------------------
    prune_threshold,   \* history_config.prune_threshold
    prune_to,          \* history_config.prune_to
    messages,          \* self._messages
    next_id,           \* self._next_id
    stored,            \* the MessageStore's persisted copy
    task,              \* per coroutine: position and locals of its call
    callers,           \* the coroutines that use this instance
    ncalls,            \* add_message calls that passed validation so far
    max_issued,        \* largest id add_message returned since construction
    max_since_reset,   \* largest id returned since the last clear()/initialize()
    fresh,             \* no clear() and no initialize() has run on the instance
    all_ids,           \* the ids of the Messages add_message returned so far
    \* --- ReflectionAnalyzer.should_continue, called on its own -------------
    an_args,           \* the arguments of the call
    an_result,         \* what the call returned (Pending before it)
    \* --- Orchestrator and its InMemorySessionStore ------------------------
    max_iterations,    \* self.max_iterations
    workload,          \* the Run calls made, their skip_phases, how phases end
    store,             \* session_store._store: key -> MessageHistory (0: absent)
    locks,             \* session_store._locks: key -> Lock (NoLock: absent)
    lock_owner,        \* per Lock object: the run holding it (0: unlocked)
    mems,              \* the MessageHistory objects, named by the run that made them
    run,               \* per Run call: its position and its local variables
    clears,            \* clear_session calls made so far
    \* --- TaskExecutor.execute_tasks, called on its own ----------------------
    ex_plan,           \* the plan argument
    ex_results,        \* the task_results argument (a dict, updated in place)
    ex_status,         \* "called", "returned" or "raised"
    \* --- MessageHistory.select_relevant_messages, called on its own --------
    sel_args,          \* the query, the turns held, the config, the embeddings' outcome
    sel_result,        \* the list returned
    sel_status,        \* "called" or "returned"
    \* --- ToolExecutor.execute_tool, called on its own ------------------------
    tool_call,         \* the tool named, the arguments, how the tool behaves
    tool_out,          \* how the call ended, and what it did on the way
    \* --- CachedEmbeddingProvider -------------------------------------------
    emb_cache,         \* self._cache: the keys held
    emb_lock,          \* self._lock: its owner (0: unlocked) and its waiters
    emb_task,          \* per coroutine: position and locals of its call
    emb_encoded,       \* per text: how often the model was asked to encode it
    emb_calls,         \* embed and embed_batch calls made so far
    \* --- RedisSessionStore ------------------------------------------------
    redis_data,        \* what Redis holds under each session key
    redis_out,         \* the last get or set: its arguments and how it ended
    \* --- call_llm, called on its own ----------------------------------------
    llm_call,          \* how the provider answers, config.retry_attempts
    llm_out            \* how the call ended, and the requests it made

memVars == << prune_threshold, prune_to, messages, next_id, stored, task,
              callers, ncalls, max_issued, max_since_reset, fresh, all_ids >>

anVars == << an_args, an_result >>

runVars == << max_iterations, workload, store, locks, lock_owner, mems,
              run, clears >>

exVars == << ex_plan, ex_results, ex_status >>

\* The functions that are called on their own.
selVars == << sel_args, sel_result, sel_status >>

toolVars == << tool_call, tool_out >>

embVars == << emb_cache, emb_lock, emb_task, emb_encoded, emb_calls >>

redisVars == << redis_data, redis_out >>

llmVars == << llm_call, llm_out >>

\* The other functions and objects used on their own.
callVars == << toolVars, embVars, redisVars, llmVars >>

pureVars == << exVars, selVars, callVars >>

vars == << memVars, anVars, runVars, pureVars >>

\* What an operation of a MessageHistory used on its own leaves alone.
notMem == << anVars, runVars, pureVars >>

Tasks == 1..NumTasks

\* ============================================================ MessageHistory

\* Message: id and content.  The content of a turn is the ordinal of the
\* add_message call that created it (the test's "Q{i}"/"A{i}"); 0 marks a turn
\* persisted by an earlier process.
Message(i, q) == [id |-> i, query |-> q]

NoMessage == Message(-1, 0)

Ids(msgs) == [k \in 1..Len(msgs) |-> msgs[k].id]

Queries(msgs) == [k \in 1..Len(msgs) |-> msgs[k].query]

SeqMax(s) == IF Len(s) = 0 THEN -1 ELSE CHOOSE x \in {s[k] : k \in 1..Len(s)} :
                                            \A k \in 1..Len(s) : s[k] <= x

Max2(a, b) == IF a >= b THEN a ELSE b

\* Python's lst[-k:] for k >= 0: the last k elements, but -0 is 0, so k = 0
\* yields lst[0:], the whole list.
LastSlice(lst, k) ==
    IF k = 0 \/ k >= Len(lst) THEN lst
    ELSE SubSeq(lst, Len(lst) - k + 1, Len(lst))

\* add_message, line 659: the pruning trigger.
ShouldPrune(current_count) == current_count >= prune_threshold

\* _prune_messages, lines 674-675: the early return (nothing removed, and no
\* persist from _prune_messages).
PruneRemoves(msgs) == Len(msgs) > prune_to

\* _prune_messages, line 679.
PruneMessages(msgs) == IF PruneRemoves(msgs) THEN LastSlice(msgs, prune_to) ELSE msgs

\* The counter left as it was.
NextId_NotAdvanced(n) == n

\* add_message, line 654.
NextId(n) == n + 1

\* initialize, lines 605-606.
IdAfterLoad(loaded, n) == IF Len(loaded) > 0 THEN SeqMax(Ids(loaded)) + 1 ELSE n

IdleTask == [pc |-> "idle", current_count |-> 0, message |-> NoMessage,
             snapshot |-> <<>>, result |-> "none"]

\* What an earlier process may have left in the MessageStore: snapshots of a
\* history, so ids strictly increasing.
PersistedBefore ==
    { <<>>, << Message(0, 0) >>, << Message(1, 0), Message(3, 0) >> }

Configs == { c \in [prune_threshold : 1..MaxThreshold, prune_to : 0..MaxThreshold] :
               c.prune_to <= c.prune_threshold }

MemInit(users) ==
    /\ \E c \in Configs : prune_threshold = c.prune_threshold /\ prune_to = c.prune_to
    /\ messages = <<>>
    /\ next_id = 0
    /\ stored \in PersistedBefore
    /\ task = [t \in Tasks |-> IdleTask]
    /\ callers = users
    /\ ncalls = 0
    /\ max_issued = -1
    /\ max_since_reset = -1
    /\ fresh = TRUE
    /\ all_ids = {}

\* ================================================= Orchestrator: the data

\* The two Run calls in flight, the session keys they may name, and the
\* session_id of a run without a session.
Runs == {1, 2}

Keys == {"k1", "k2"}

NoSession == "None"

PhaseNames == {"understand", "plan", "execute", "reflect", "answer"}

\* The phases run(...) calls through _run_phase_with_timeout.
TimedPhases == {"understand", "plan", "reflect", "answer"}

\* HistoryConfig defaults, used by the MessageHistory(model=...) of a run.
DefaultPruneThreshold == 120

DefaultPruneTo == 80

MAX_HISTORY_MESSAGES == 20

\* asyncio.Lock objects are named by the get_lock call that created them: the
\* run and the place (fetch or save).  NoLock: no Lock.
NoLock == << 0, "none" >>

LockIds == Runs \X {"fetch", "save"}

\* previous_results_snapshot: None, or a dict of which the keys are kept.
NoSnapshot == [is_none |-> TRUE, keys |-> {}]

Snapshot(keys) == [is_none |-> FALSE, keys |-> keys]

\* Keys of task_results: a task id, or "__executor_error_iter_{n}".
TaskKey(n) == << "task", n >>

ErrorKey(n) == << "__executor_error_iter", n >>

\* k.startswith('__'), line 600.
IsDunder(k) == k[1] = "__executor_error_iter"

\* What a phase hands back, as far as run(...) looks at it: its type (dict,
\* str, async iterator, other object), and for a dict the entries read later.
Val(kind) == [kind |-> kind, is_dict |-> (kind = "dict"), failed |-> FALSE,
              timeout |-> FALSE, is_complete |-> FALSE, confidence |-> 0,
              tasks |-> {}, text |-> ""]

NoValue == Val("none")

\* {"query": query, "skipped": True} and {"skipped": True}.
SkippedValue == Val("dict")

\* _run_phase_with_timeout, lines 406 and 423.
FailurePayload(timed_out) == [Val("dict") EXCEPT !.failed = TRUE, !.timeout = timed_out]

\* RunMetrics(run_id, query), lines 52-63.  A phase absent from phase_attempts
\* or phase_timings counts 0; phase_timings counts the durations added;
\* finalized counts the finalize calls.
NewMetrics == [iterations |-> 0,
               phase_attempts |-> [p \in PhaseNames |-> 0],
               phase_timings |-> [p \in PhaseNames |-> 0],
               tool_calls |-> 0,
               errors |-> <<>>,
               stop_reason |-> "None",
               finalized |-> 0]

\* record_phase, lines 65-68.
RecordPhase(m, p) == [m EXCEPT !.phase_attempts[p] = @ + 1, !.phase_timings[p] = @ + 1]

\* record_error, lines 70-77.
RecordError(m, p) == [m EXCEPT !.errors = Append(@, p)]

\* finalize, lines 79-82.
Finalize(m, reason) == [m EXCEPT !.stop_reason = reason, !.finalized = @ + 1]

\* MessageHistory(model=...): no messages, _next_id 0.  A turn is kept as
\* the run that appended it.
NewMemory == [messages |-> <<>>, next_id |-> 0]

\* working_history before line 520: none.  alias: it is the run's history
\* itself (line 527); otherwise a MessageHistory of its own (line 523).
NoWorking == [alias |-> FALSE, messages |-> <<>>, next_id |-> 0]

\* The fields of AgentCallbacks (lines 243-253) and the hook execute_tasks
\* looks for on the same object (task_executor.py line 70).
CallbackNames ==
    {"on_phase_start", "on_phase_complete", "on_understanding_complete",
     "on_plan_created", "on_reflection_complete", "on_iteration_start",
     "on_answer_start", "on_answer_stream", "on_metrics_update", "on_task_complete"}

\* AgentCallbacks(): every field None.  supplied: the fields set to a
\* callable; raising: those whose callable raises an Exception when called.
NoCallbacks == [supplied |-> {}, raising |-> {}]

\* fired: the calls made to each callback; warnings: the callback_failed
\* warnings logged; log: what the phases of this run returned, in order.
IdleRun == [pc |-> "idle", session |-> NoSession, skip |-> {}, history |-> 0,
            working |-> NoWorking, touched |-> 0, writes |-> {},
            cb |-> NoCallbacks, fired |-> [n \in CallbackNames |-> 0],
            warnings |-> 0, log |-> <<>>,
            lock |-> NoLock, iteration |-> 0, task_results |-> {},
            snapshot |-> NoSnapshot, completed_plans |-> 0,
            understanding |-> NoValue, plan |-> NoValue, reflection |-> NoValue,
            stream |-> NoValue, final_answer |-> "", metrics |-> NewMetrics,
            calls |-> [p \in PhaseNames |-> 0], last |-> "none", expired |-> FALSE]

RunsAtRest ==
    /\ max_iterations = 1
    /\ workload = [runs |-> {}, skips |-> {}, outcomes |-> {},
                   has_add_agent_message |-> FALSE, summarization |-> TRUE,
                   callbacks |-> [r \in Runs |-> NoCallbacks], logged |-> FALSE,
                   default_reflect |-> FALSE]
    /\ store = [k \in Keys |-> 0]
    /\ locks = [k \in Keys |-> NoLock]
    /\ lock_owner = [l \in LockIds |-> 0]
    /\ mems = [r \in Runs |-> NewMemory]
    /\ run = [r \in Runs |-> IdleRun]
    /\ clears = 0

\* The value of a should_continue call that has not returned.
Pending == [continue |-> TRUE, reason |-> "pending"]

\* The variables of the other components, at rest.
AnalyzerAtRest == an_args = <<>> /\ an_result = Pending

\* ============================================== TaskExecutor: the data

\* Ids a task of a plan may carry: a string, none (task.get("id") is None), or
\* a value that cannot be a dict key (a list).
TaskIds == {"t1", "t2"}

NoId == "None"

ListId == "['t1']"

\* The tool a task names: one in the ToolExecutor's registry, one that is not
\* registered, or none.
ToolNames == {"known_tool", "unknown_tool"}

NoTool == "None"

Registry == {"known_tool"}

\* An element of plan["tasks"]: a dict with "id" and "tool", or not a dict.
PlanTask(d, i, tool) == [is_dict |-> d, id |-> i, tool |-> tool]

PlanTasks ==
    { PlanTask(FALSE, NoId, NoTool) } \cup
    { PlanTask(TRUE, i, tool) : i \in TaskIds \cup {NoId, ListId},
                                tool \in ToolNames \cup {NoTool} }

\* A value of task_results: lines 60-64 (failed absent) or 79-83 (failed and
\* error present).  NoEntry: the key is absent.
Entry(f) == [present |-> TRUE, failed |-> f, error |-> f]

NoEntry == [present |-> FALSE, failed |-> FALSE, error |-> FALSE]

EmptyResults == [k \in TaskIds |-> NoEntry]

\* execute_tasks not called: no plan.
NoPlan == [is_dict |-> FALSE, is_list |-> FALSE, tasks |-> <<>>]

ExecutorAtRest == ex_plan = NoPlan /\ ex_results = EmptyResults /\ ex_status = "none"

\* ========================================== RelevanceSelector: the data

\* RelevanceConfig's defaults (lines 63-64), in tenths.
DefaultSimilarityThreshold == 3

DefaultRecencyWeight == 3

\* RelevanceConfig, lines 60-65.
RelevanceConfig(k, use) ==
    [max_messages |-> k, similarity_threshold |-> DefaultSimilarityThreshold,
     recency_weight |-> DefaultRecencyWeight, use_embeddings |-> use]

\* Cosine similarities the embeddings may give, in tenths: below, at and above
\* the threshold.
Similarities == {0, DefaultSimilarityThreshold, 2 * DefaultSimilarityThreshold}

\* select_relevant_messages not called.
NoSelectArgs == [query |-> "none", messages |-> <<>>,
                 config |-> RelevanceConfig(0, FALSE),
                 similarities |-> <<>>, embed_ok |-> FALSE]

SelectorAtRest == sel_args = NoSelectArgs /\ sel_result = <<>> /\ sel_status = "none"

\* ============================================== ToolExecutor: the data

\* execute_tool not called.
NoToolCall == [name |-> "none", args |-> "None", fault |-> "none", installed |-> FALSE]

\* The call pending: nothing returned or raised yet, the tool's run method not
\* called, no attempt made.
ToolPending == [status |-> "called", failed |-> FALSE, error |-> FALSE,
                raised |-> "none", invocations |-> 0, attempts |-> 0]

ToolAtRest == tool_call = NoToolCall /\ tool_out = [ToolPending EXCEPT !.status = "none"]

\* ================================== CachedEmbeddingProvider: the data

EmbedTexts == {"a", "b"}

\* A coroutine outside embed and embed_batch.  texts: the argument (embed's
\* text as a list of one); uncached: uncached_indices.
IdleEmbed == [pc |-> "idle", texts |-> <<>>, uncached |-> {}]

\* An asyncio.Lock nobody holds or waits for.
FreeLock == [owner |-> 0, waiters |-> <<>>]

\* CachedEmbeddingProvider(), lines 183-188: empty cache, the lock free.
EmbeddingAtRest ==
    /\ emb_cache = {}
    /\ emb_lock = FreeLock
    /\ emb_task = [t \in Tasks |-> IdleEmbed]
    /\ emb_encoded = [x \in EmbedTexts |-> 0]
    /\ emb_calls = 0

\* ========================================= RedisSessionStore: the data

\* What client.get returns: None for a key that is absent or expired, the
\* empty string, or the JSON text that set wrote (the model and, of each
\* message, id, query, answer and summary: ids stands for the list).
RedisMissing == [kind |-> "missing", model |-> "none", ids |-> <<>>]

RedisEmpty == [kind |-> "empty", model |-> "none", ids |-> <<>>]

\* A MessageHistory as far as get and set look at it; fresh: the object was
\* made by this call.
History(model, ids, made) ==
    [model |-> model, ids |-> ids,
     next_id |-> IF ids = <<>> THEN 0 ELSE SeqMax(ids) + 1, fresh |-> made]

\* default=None.
NoDefault == [model |-> "none", ids |-> <<>>, next_id |-> 0, fresh |-> FALSE]

\* No call made yet.  before, after: the value under the key when the call
\* was made and when it ended; new_sessions: a get has found nothing under
\* its key.
NoRedisCall == [op |-> "none", key |-> "k1", fault |-> FALSE, before |-> RedisMissing,
                after |-> RedisMissing, arg |-> NoDefault, given |-> FALSE,
                result |-> NoDefault, raised |-> FALSE, new_sessions |-> FALSE]

RedisAtRest == redis_data = [k \in Keys |-> RedisMissing] /\ redis_out = NoRedisCall

\* ================================================== call_llm: the data

NoLlmCall == [type |-> "none", says |-> "none", failures |-> 0, retry_attempts |-> 0]

LlmPending == [status |-> "called", attempts |-> 0, raised |-> "none",
               last_error |-> "none"]

LlmAtRest == llm_call = NoLlmCall /\ llm_out = [LlmPending EXCEPT !.status = "none"]

\* The functions and objects used on their own besides execute_tasks and
\* select_relevant_messages, at rest.
CallsAtRest == ToolAtRest /\ EmbeddingAtRest /\ RedisAtRest /\ LlmAtRest

PureAtRest == ExecutorAtRest /\ SelectorAtRest /\ CallsAtRest

OthersAtRest == AnalyzerAtRest /\ RunsAtRest /\ PureAtRest

\* The id taken from the length of the list instead of the counter.
AppendAndPrune_IdFromLength(t, q) ==
    LET m == Message(Len(messages), q)
        appended == Append(messages, m)
        count == Len(appended)
        pruning == ShouldPrune(count) /\ PruneRemoves(appended)
        after == IF ShouldPrune(count) THEN PruneMessages(appended) ELSE appended
    IN /\ messages' = after
       /\ next_id' = NextId(next_id)
       /\ task' = [task EXCEPT ![t] =
                     [pc |-> IF pruning THEN "prune_persist" ELSE "persist",
                      current_count |-> count, message |-> m,
                      snapshot |-> after, result |-> "none"]]

\* add_message lines 644-663 up to the first await that suspends: the message
\* is created and appended under the lock, the counter advanced, the count
\* taken; _prune_messages runs when the count reached the threshold; then the
\* snapshot of _persist is taken (by _prune_messages' own _persist if it
\* removed something, else by add_message's).  None of the lock blocks contains
\* an await, so the lock is always free when a coroutine asks for it.
AppendAndPrune(t, q) ==
    LET m == Message(next_id, q)
        appended == Append(messages, m)
        count == Len(appended)
        pruning == ShouldPrune(count) /\ PruneRemoves(appended)
        after == IF ShouldPrune(count) THEN PruneMessages(appended) ELSE appended
    IN /\ messages' = after
       /\ next_id' = NextId(next_id)
       /\ task' = [task EXCEPT ![t] =
                     [pc |-> IF pruning THEN "prune_persist" ELSE "persist",
                      current_count |-> count, message |-> m,
                      snapshot |-> after, result |-> "none"]]

\* add_message lines 632-641: validation, then the summary.  A custom summary
\* needs no await, so the call runs on into the append.
AddMessageCall(t) ==
    /\ t \in callers
    /\ task[t].pc = "idle"
    /\ ncalls < MaxAdds
    /\ \E valid \in BOOLEAN, custom \in BOOLEAN :
         IF ~valid
         THEN /\ task' = [task EXCEPT ![t] = [IdleTask EXCEPT !.result = "ValueError"]]
              /\ UNCHANGED << messages, next_id, ncalls >>
         ELSE /\ ncalls' = ncalls + 1
              /\ IF custom
                 THEN AppendAndPrune(t, ncalls + 1)
                 ELSE /\ task' = [task EXCEPT ![t] =
                                    [IdleTask EXCEPT !.pc = "summarize",
                                                     !.current_count = ncalls + 1]]
                      /\ UNCHANGED << messages, next_id >>
    /\ UNCHANGED notMem
    /\ UNCHANGED << prune_threshold, prune_to, stored, callers, max_issued,
                    max_since_reset, fresh, all_ids >>

\* summarizer.summarize returned (line 641); lines 644-663 follow.
AddMessageSummarized(t) ==
    /\ task[t].pc = "summarize"
    /\ AppendAndPrune(t, task[t].current_count)
    /\ UNCHANGED notMem
    /\ UNCHANGED << prune_threshold, prune_to, stored, callers, ncalls,
                    max_issued, max_since_reset, fresh, all_ids >>

\* _persist, lines 688-696: message_store.save(snapshot) ends, with success or
\* with an exception that _persist swallows.
Saved(snapshot, ok) == IF ok THEN snapshot ELSE stored

\* _prune_messages' _persist (line 684) ends; add_message's own _persist
\* (line 663) takes its snapshot.
AddMessagePrunePersisted(t) ==
    /\ task[t].pc = "prune_persist"
    /\ \E ok \in BOOLEAN : stored' = Saved(task[t].snapshot, ok)
    /\ task' = [task EXCEPT ![t].pc = "persist", ![t].snapshot = messages]
    /\ UNCHANGED notMem
    /\ UNCHANGED << prune_threshold, prune_to, messages, next_id, callers,
                    ncalls, max_issued, max_since_reset, fresh, all_ids >>

\* add_message's _persist ends; the message is returned (line 666).
AddMessageReturn(t) ==
    /\ task[t].pc = "persist"
    /\ \E ok \in BOOLEAN : stored' = Saved(task[t].snapshot, ok)
    /\ task' = [task EXCEPT ![t].pc = "idle", ![t].snapshot = <<>>,
                            ![t].result = "returned"]
    /\ max_issued' = Max2(max_issued, task[t].message.id)
    /\ max_since_reset' = Max2(max_since_reset, task[t].message.id)
    /\ all_ids' = all_ids \cup {task[t].message.id}
    /\ UNCHANGED notMem
    /\ UNCHANGED << prune_threshold, prune_to, messages, next_id, callers,
                    ncalls, fresh >>

\* clear, lines 736-738: the list emptied and the counter reset under the lock.
ClearedId == 0

\* clear that empties the list and leaves the counter.
Clear_CounterKept(t) ==
    /\ t \in callers
    /\ task[t].pc = "idle"
    /\ messages' = <<>>
    /\ next_id' = next_id
    /\ task' = [task EXCEPT ![t] = [IdleTask EXCEPT !.pc = "clear_store"]]
    /\ max_since_reset' = -1
    /\ fresh' = FALSE
    /\ UNCHANGED notMem
    /\ UNCHANGED << prune_threshold, prune_to, stored, callers, ncalls, max_issued, all_ids >>

Clear(t) ==
    /\ t \in callers
    /\ task[t].pc = "idle"
    /\ messages' = <<>>
    /\ next_id' = ClearedId
    /\ task' = [task EXCEPT ![t] = [IdleTask EXCEPT !.pc = "clear_store"]]
    /\ max_since_reset' = -1
    /\ fresh' = FALSE
    /\ UNCHANGED notMem
    /\ UNCHANGED << prune_threshold, prune_to, stored, callers, ncalls, max_issued, all_ids >>

\* clear, line 740: message_store.clear() ends (FileMessageStore.clear logs a
\* failure and leaves the file).
ClearStoreDone(t) ==
    /\ task[t].pc = "clear_store"
    /\ \E ok \in BOOLEAN : stored' = Saved(<<>>, ok)
    /\ task' = [task EXCEPT ![t] = IdleTask]
    /\ UNCHANGED notMem
    /\ UNCHANGED << prune_threshold, prune_to, messages, next_id, callers,
                    ncalls, max_issued, max_since_reset, fresh, all_ids >>

\* initialize, line 602: message_store.load() is awaited.
Initialize(t) ==
    /\ t \in callers
    /\ task[t].pc = "idle"
    /\ task' = [task EXCEPT ![t] = [IdleTask EXCEPT !.pc = "load"]]
    /\ UNCHANGED notMem
    /\ UNCHANGED << prune_threshold, prune_to, messages, next_id, stored,
                    callers, ncalls, max_issued, max_since_reset, fresh, all_ids >>

\* initialize, lines 603-606: the loaded list replaces _messages
\* (FileMessageStore.load returns [] when reading fails).
InitializeLoaded(t) ==
    /\ task[t].pc = "load"
    /\ \E ok \in BOOLEAN :
         LET loaded == IF ok THEN stored ELSE <<>>
         IN /\ messages' = loaded
            /\ next_id' = IdAfterLoad(loaded, next_id)
            /\ fresh' = (fresh /\ loaded = <<>> /\ messages = <<>>)
    /\ task' = [task EXCEPT ![t] = IdleTask]
    /\ max_since_reset' = -1
    /\ UNCHANGED notMem
    /\ UNCHANGED << prune_threshold, prune_to, stored, callers, ncalls, max_issued, all_ids >>

MemNext ==
    \E t \in Tasks :
        \/ AddMessageCall(t)
        \/ AddMessageSummarized(t)
        \/ AddMessagePrunePersisted(t)
        \/ AddMessageReturn(t)
        \/ Clear(t)
        \/ ClearStoreDone(t)
        \/ Initialize(t)
        \/ InitializeLoaded(t)

\* One caller using the instance: its calls are sequential.
InitMemory == MemInit({1}) /\ OthersAtRest

SpecMemory == InitMemory /\ [][MemNext]_vars

\* ------------------------------------------------- MessageHistory: claims

\* The caller's call has returned and no call is in flight.
Returned(t) == task[t].pc = "idle" /\ task[t].result = "returned"

StrictlyIncreasing(s) == \A i, j \in 1..Len(s) : i < j => s[i] < s[j]

\* The k most recently added turns of n, in the order they were added.
MostRecent(k, n) == [i \in 1..k |-> n - k + i]

\* C1 (as claimed): with prune_to < prune_threshold, once n >= prune_threshold
\* sequential add_message calls have returned on a fresh instance, the memory
\* holds exactly prune_to turns, the prune_to most recently added, in order.
\* Stated for prune_to >= 1, where line 679's slice keeps prune_to turns.
C1_ExactlyPruneToAfterThreshold ==
    (/\ fresh /\ Returned(1)
     /\ 1 <= prune_to /\ prune_to < prune_threshold
     /\ ncalls >= prune_threshold)
        => /\ Len(messages) = prune_to
           /\ Queries(messages) = MostRecent(prune_to, ncalls)

\* C2 (as claimed): after every add_message call returns, the length is at
\* most prune_threshold, for every configuration with prune_to <= prune_threshold.
C2_LengthAtMostThreshold ==
    Returned(1) => Len(messages) <= prune_threshold

InitConcurrent == MemInit(Tasks) /\ stored = <<>> /\ OthersAtRest

ConcurrentNext ==
    \E t \in Tasks :
        \/ ncalls < MaxConcurrentAdds /\ AddMessageCall(t)
        \/ AddMessageSummarized(t)
        \/ AddMessagePrunePersisted(t)
        \/ AddMessageReturn(t)

SpecConcurrent == InitConcurrent /\ [][ConcurrentNext]_vars

\* The calls that validated their arguments and have not appended yet.
Summarizing == { t \in Tasks : task[t].pc = "summarize" }

\* add_message returns to t in this step.
Returns(t) == task[t].pc = "persist" /\ task'[t].pc = "idle"

Distinct(s) == \A i, j \in 1..Len(s) : i # j => s[i] # s[j]

\* C17: with several coroutines calling add_message on one instance, every
\* Message returned carries an id no earlier call returned, and while the
\* number of calls is below prune_threshold the list holds exactly one turn
\* for every call that has appended (so one per call once all have returned).
C17_ConcurrentAddsDistinct ==
    /\ [][\A t \in Tasks : Returns(t) => task[t].message.id \notin all_ids]_vars
    /\ [](ncalls < prune_threshold
            => /\ Len(messages) = ncalls - Cardinality(Summarizing)
               /\ Distinct(Queries(messages))
               /\ Distinct(Ids(messages)))

\* C17 witness: two calls were in flight together; the one that appended
\* second has returned first, the other is still saving, and both turns are
\* in the list, below the threshold.
C17_Witness ==
    /\ Returned(1) /\ task[2].pc = "persist"
    /\ task[2].message.id < task[1].message.id
    /\ all_ids = {task[1].message.id}
    /\ ncalls = 2 /\ ncalls < prune_threshold
    /\ Len(messages) = 2

\* --------------------------------------------- MessageHistory: ids and clear

\* One caller that adds turns and clears the instance; initialize is not
\* called, so the instance is fresh until its first clear().
ClearingNext ==
    \E t \in Tasks :
        \/ AddMessageCall(t)
        \/ AddMessageSummarized(t)
        \/ AddMessagePrunePersisted(t)
        \/ AddMessageReturn(t)
        \/ Clear(t)
        \/ ClearStoreDone(t)

SpecClearing == InitMemory /\ [][ClearingNext]_vars

\* add_message is about to return its message to t.
AboutToReturn(t) == task[t].pc \in {"prune_persist", "persist"}

Newest(lst, k) == SubSeq(lst, Len(lst) - k + 1, Len(lst))

\* add_message appends t's message in this step (lines 644-656).
Appends(t) ==
    task[t].pc \in {"idle", "summarize"} /\ task'[t].pc \in {"prune_persist", "persist"}

\* C20 (as claimed): whenever an add_message call brings the length to at
\* least prune_threshold, the turns kept are the prune_to newest of the list
\* (those with the largest ids), in their order, and when the call returns the
\* memory holds exactly prune_to turns.
C20_PruneKeepsNewest ==
    [][\A t \in callers :
         /\ (Appends(t) /\ task'[t].current_count >= prune_threshold)
                => messages' = Newest(Append(messages, task'[t].message), prune_to)
         /\ (Returns(t) /\ task[t].current_count >= prune_threshold)
                => Len(messages') = prune_to]_vars

\* ======================================================== ReflectionAnalyzer

\* StopReason, lines 41-48.
StopReasons == {"reflection_complete", "max_iterations", "no_progress",
                "high_confidence", "timeout", "error"}

\* Confidence scores are kept in hundredths; line 186 compares with 0.9.
HighConfidence == 90

\* A reflection as should_continue reads it: whether it is a dict, the truth
\* value of reflection.get('is_complete') and reflection.get('confidence', 0).
Reflection(d, c, conf) == [is_dict |-> d, is_complete |-> c, confidence |-> conf]

\* Truth value of a dict (or None) in a Python condition: line 178.
Truthy(snapshot) == ~snapshot.is_none /\ snapshot.keys # {}

\* The completion test placed after the max-iterations test.
ShouldContinue_MaxFirst(reflection, iteration, max_iter, task_results, snapshot) ==
    IF iteration >= max_iter
    THEN [continue |-> FALSE, reason |-> "max_iterations"]
    ELSE IF reflection.is_dict /\ reflection.is_complete
    THEN [continue |-> FALSE, reason |-> "reflection_complete"]
    ELSE IF iteration > 1 /\ Truthy(snapshot) /\ (task_results \ snapshot.keys) = {}
    THEN [continue |-> FALSE, reason |-> "no_progress"]
    ELSE IF reflection.is_dict /\ reflection.confidence > HighConfidence
    THEN [continue |-> FALSE, reason |-> "high_confidence"]
    ELSE [continue |-> TRUE, reason |-> "None"]

\* should_continue, lines 156-189.  task_results and snapshot are the key sets
\* of the two dicts; snapshot may be None.
ShouldContinue(reflection, iteration, max_iter, task_results, snapshot) ==
    IF reflection.is_dict /\ reflection.is_complete
    THEN [continue |-> FALSE, reason |-> "reflection_complete"]
    ELSE IF iteration >= max_iter
    THEN [continue |-> FALSE, reason |-> "max_iterations"]
    ELSE IF iteration > 1 /\ Truthy(snapshot) /\ (task_results \ snapshot.keys) = {}
    THEN [continue |-> FALSE, reason |-> "no_progress"]
    ELSE IF reflection.is_dict /\ reflection.confidence > HighConfidence
    THEN [continue |-> FALSE, reason |-> "high_confidence"]
    ELSE [continue |-> TRUE, reason |-> "None"]

ResultKeys == {"iter1_t", "iter2_t"}

Confidences == {0, 50, 90, 95}

AnalyzerArgs ==
    [reflection : { Reflection(d, c, conf) :
                      d \in BOOLEAN, c \in BOOLEAN, conf \in Confidences },
     iteration : 1..(MaxIterations + 1),
     max_iterations : 1..MaxIterations,
     task_results : SUBSET ResultKeys,
     snapshot : {NoSnapshot} \cup { Snapshot(k) : k \in SUBSET ResultKeys }]

MemoryAtRest ==
    /\ prune_threshold = 0 /\ prune_to = 0
    /\ messages = <<>> /\ next_id = 0 /\ stored = <<>>
    /\ task = [t \in Tasks |-> IdleTask]
    /\ callers = {}
    /\ ncalls = 0 /\ max_issued = -1 /\ max_since_reset = -1 /\ fresh = TRUE
    /\ all_ids = {}

InitAnalyzer ==
    /\ an_args \in AnalyzerArgs
    /\ an_result = Pending
    /\ MemoryAtRest
    /\ RunsAtRest
    /\ PureAtRest

\* One call of ReflectionAnalyzer.should_continue.
ShouldContinueCall ==
    /\ an_result = Pending
    /\ an_result' = ShouldContinue(an_args.reflection, an_args.iteration,
                                   an_args.max_iterations, an_args.task_results,
                                   an_args.snapshot)
    /\ UNCHANGED << an_args, memVars, runVars, pureVars >>

AnalyzerNext == ShouldContinueCall

SpecAnalyzer == InitAnalyzer /\ [][AnalyzerNext]_vars

\* --------------------------------------------- ReflectionAnalyzer: claims

\* The reflection signals completion: a dict whose is_complete is true.
SignalsCompletion(reflection) == reflection.is_dict /\ reflection.is_complete

\* C4: should_continue returns (stop, ReflectionComplete) whenever the
\* reflection signals completion, for every iteration number, max_iterations,
\* task-result map, snapshot and confidence value.
C4_CompletionStopsFirst ==
    (an_result # Pending /\ SignalsCompletion(an_args.reflection))
        => an_result = [continue |-> FALSE, reason |-> "reflection_complete"]

\* C4 witness: is_complete at iteration 1 with max_iterations 5 gave
\* ReflectionComplete; so did a completion reported at the last iteration.
C4_Witness ==
    /\ an_result # Pending
    /\ SignalsCompletion(an_args.reflection)
    /\ an_args.iteration = 1 /\ an_args.max_iterations = 5
    /\ an_result.reason = "reflection_complete"

\* The call is over, the reflection did not signal completion.
Undecided == an_result # Pending /\ ~SignalsCompletion(an_args.reflection)

\* No key of the task results is new with respect to the snapshot taken
\* before the iteration.
NoNewKeys == ~an_args.snapshot.is_none /\ an_args.task_results \subseteq an_args.snapshot.keys

\* C31 (as claimed): without a completion signal and with
\* 1 < iteration < max_iterations, should_continue returns (stop, NoProgress)
\* whenever the task-result keys equal the snapshot, the empty snapshot
\* included.
C31_NoNewKeysStops ==
    (/\ Undecided
     /\ 1 < an_args.iteration /\ an_args.iteration < an_args.max_iterations
     /\ ~an_args.snapshot.is_none
     /\ an_args.task_results = an_args.snapshot.keys)
        => an_result = [continue |-> FALSE, reason |-> "no_progress"]

\* The rules that precede high confidence: max iterations, no progress.
EarlierRule ==
    \/ an_args.iteration >= an_args.max_iterations
    \/ an_args.iteration > 1 /\ NoNewKeys

\* C32 (as claimed): the rules apply in the order completion, max iterations,
\* no progress, high confidence: without a completion signal and at
\* iteration >= max_iterations the reason is MaxIterations; HighConfidence is
\* returned only when no earlier rule matches and the confidence is above 0.9;
\* when no rule matches (a confidence of exactly 0.9 included) the call
\* returns (continue, None).
C32_RulesInOrder ==
    Undecided =>
        /\ (an_args.iteration >= an_args.max_iterations)
              => an_result = [continue |-> FALSE, reason |-> "max_iterations"]
        /\ (an_result.reason = "high_confidence")
              => /\ ~EarlierRule
                 /\ an_args.reflection.is_dict
                 /\ an_args.reflection.confidence > HighConfidence
        /\ (/\ ~EarlierRule
            /\ ~(an_args.reflection.is_dict
                 /\ an_args.reflection.confidence > HighConfidence))
              => an_result = [continue |-> TRUE, reason |-> "None"]

\* ====================================================== InMemorySessionStore

\* A Lock is made for every call, whether or not the key has one.
GetLock_AlwaysNew(lks, key, by) == [lks EXCEPT ![key] = by]

\* One Lock serves every key: a key without a Lock gets the Lock of another.
GetLock_Shared(lks, key, by) ==
    LET locked == { k \in DOMAIN lks : lks[k] # NoLock }
    IN IF lks[key] # NoLock THEN lks
       ELSE IF locked = {} THEN [lks EXCEPT ![key] = by]
       ELSE [lks EXCEPT ![key] = lks[CHOOSE k \in locked : TRUE]]

\* get_lock, lines 137-140: _locks after the call; `by` names the Lock that is
\* made when the key has none.
GetLock(lks, key, by) == IF lks[key] = NoLock THEN [lks EXCEPT ![key] = by] ELSE lks

\* The runs suspended in Lock.acquire of lk.
Waiting(lk) == { r \in Runs : run[r].pc \in {"fetch_wait", "save_wait"} /\ run[r].lock = lk }

\* Lock.acquire returns without suspending: unlocked and nobody queued.
LockFree(lk) == lock_owner[lk] = 0 /\ Waiting(lk) = {}

\* ============================================================= Orchestrator

Outcomes == {"ok", "timeout", "raise"}

\* Deadline expiries are swallowed like a successful return.
PhaseMetrics_TimeoutUnrecorded(m, p, outcome) ==
    IF outcome = "raise" THEN RecordError(RecordPhase(m, p), p) ELSE RecordPhase(m, p)

\* _run_phase_with_timeout, lines 377-423: what it records in the metrics.
PhaseMetrics(m, p, outcome) ==
    IF outcome = "ok" THEN RecordPhase(m, p) ELSE RecordError(RecordPhase(m, p), p)

\* _run_phase_with_timeout, lines 390, 406, 423: what it returns.
PhaseResult(outcome, value) ==
    IF outcome = "ok" THEN value
    ELSE IF outcome = "timeout" THEN FailurePayload(TRUE)
    ELSE FailurePayload(FALSE)

\* The run's locals after a phase called through _run_phase_with_timeout ended;
\* last is how the last such phase ended, expired whether a deadline was ever
\* exceeded in this run.
Timed(rec, p, outcome) ==
    [rec EXCEPT !.metrics = PhaseMetrics(@, p, outcome),
                !.last = outcome,
                !.expired = @ \/ (outcome = "timeout")]

\* The exception recorded and re-raised, the metrics left as they were.
Abort_Unfinalized(rec) ==
    [rec EXCEPT !.metrics = RecordError(@, "orchestrator"), !.pc = "raised"]

\* The except clause of run, lines 706-718.
Abort(rec) ==
    [rec EXCEPT !.metrics = Finalize(RecordError(@, "orchestrator"), "error"),
                !.pc = "raised"]

\* Some run of the workload has callbacks supplied.
Observed == \E r \in Runs : workload.callbacks[r].supplied # {}

\* The callback called bare: what it raises is raised by run.
SafeCallback_Unguarded(rec, name) ==
    IF ~Observed \/ name \notin rec.cb.supplied THEN rec
    ELSE IF name \in rec.cb.raising
    THEN Abort([rec EXCEPT !.fired[name] = @ + 1])
    ELSE [rec EXCEPT !.fired[name] = @ + 1]

\* _safe_callback, lines 340-346: a callable callback is called; an Exception
\* it raises is logged as a warning and goes no further.
SafeCallback(rec, name) ==
    IF ~Observed \/ name \notin rec.cb.supplied THEN rec
    ELSE IF name \in rec.cb.raising
    THEN [rec EXCEPT !.fired[name] = @ + 1, !.warnings = @ + 1]
    ELSE [rec EXCEPT !.fired[name] = @ + 1]

\* execute_tasks, task_executor.py lines 69-75: on_task_complete is called
\* once for each of the n tasks that completed, inside try/except Exception.
TaskCallbacks(rec, n) ==
    IF ~Observed \/ "on_task_complete" \notin rec.cb.supplied THEN rec
    ELSE [rec EXCEPT !.fired["on_task_complete"] = @ + n]

\* Two calls of _safe_callback in a row.
SafeCallbacks(rec, first, second) == SafeCallback(SafeCallback(rec, first), second)

\* What a phase returned to this run, kept when the workload asks for it.
Chose(rec, p, outcome, value) ==
    IF workload.logged THEN [rec EXCEPT !.log = Append(@, << p, outcome, value >>)]
    ELSE rec

\* on_phase_start, then phase.run(...) is awaited.
StartPhase(rec, p) ==
    [SafeCallback(rec, "on_phase_start") EXCEPT !.pc = p, !.calls[p] = @ + 1]

\* Plan started while Understand is awaited.
EnterUnderstand_PlanAhead(rec) ==
    IF "understand" \notin rec.skip
    THEN StartPhase(StartPhase(rec, "understand"), "plan")
    ELSE [rec EXCEPT !.understanding = SkippedValue, !.iteration = 1, !.pc = "loop"]

\* Lines 535-551.
EnterUnderstand(rec) ==
    IF "understand" \notin rec.skip
    THEN StartPhase(rec, "understand")
    ELSE [rec EXCEPT !.understanding = SkippedValue, !.iteration = 1, !.pc = "loop"]

\* get_context_window, lines 204-222: with more than max_messages messages it
\* goes on to _summarize_messages, which calls m.get('role') on Message
\* objects and raises AttributeError.
WindowRaises(mem) == Len(mem.messages) > MAX_HISTORY_MESSAGES

\* The run's history handed to the phases whatever the option says.
WorkingHistory_Alias(mem, enabled) ==
    [alias |-> TRUE, messages |-> <<>>, next_id |-> 0]

\* Lines 520-527: with enable_history_summarization a new MessageHistory
\* (_next_id 0) that holds the messages of the context window; without it the
\* run's history itself.
WorkingHistory(mem, enabled) ==
    IF enabled THEN [alias |-> FALSE, messages |-> mem.messages, next_id |-> 0]
    ELSE [alias |-> TRUE, messages |-> <<>>, next_id |-> 0]

\* Lines 520-551, once the history is resolved.
AfterHistory(rec, mem) ==
    IF workload.summarization /\ WindowRaises(mem) THEN Abort(rec)
    ELSE EnterUnderstand([rec EXCEPT !.working =
                                       WorkingHistory(mem, workload.summarization)])

\* The loop entered only while iterations remain after this one.
LoopContinues_Strict(iteration, max_iter) == iteration < max_iter

\* Line 556.
LoopContinues(iteration, max_iter) == iteration <= max_iter

\* execute_tasks, task_executor.py lines 38-67: plan.get raises on an object
\* without get; every task id of a dict plan becomes a key of task_results.
ExecuteRaises(plan) == ~plan.is_dict

\* The executor's exception left to the except clause of run.
ExecuteTasks_Aborting(rec) ==
    IF "execute" \notin rec.skip /\ ExecuteRaises(rec.plan)
    THEN Abort([SafeCallback(rec, "on_phase_start") EXCEPT !.calls["execute"] = @ + 1])
    ELSE LET appended == [rec EXCEPT !.completed_plans = @ + 1]
         IN IF "reflect" \notin rec.skip
            THEN StartPhase(appended, "reflect")
            ELSE [appended EXCEPT !.iteration = @ + 1, !.pc = "loop"]

\* Lines 587-612, with the Reflect phase started or skipped (615, 654).
\* writes: the assignments made to task_results (task_executor.py line 67,
\* orchestrator.py line 602), each with the iteration that made it.
ExecuteTasks(rec) ==
    LET executed ==
          IF "execute" \in rec.skip THEN rec
          ELSE LET started == SafeCallback(rec, "on_phase_start")
                   results == rec.task_results \cup rec.plan.tasks
                   ended ==
                     IF ExecuteRaises(rec.plan)
                     THEN [started EXCEPT
                             !.task_results = @ \cup {ErrorKey(rec.iteration)},
                             !.writes = @ \cup {<< ErrorKey(rec.iteration), rec.iteration >>},
                             !.metrics = RecordError(@, "execute"),
                             !.calls["execute"] = @ + 1]
                     ELSE [TaskCallbacks(started, Cardinality(rec.plan.tasks)) EXCEPT
                             !.task_results = results,
                             !.writes = @ \cup { << k, rec.iteration >> : k \in rec.plan.tasks },
                             !.metrics.tool_calls =
                                 Cardinality({ k \in results : ~IsDunder(k) }),
                             !.calls["execute"] = @ + 1]
               IN SafeCallback(ended, "on_phase_complete")
        appended == [executed EXCEPT !.completed_plans = @ + 1]
    IN IF "reflect" \notin rec.skip
       THEN StartPhase(appended, "reflect")
       ELSE [appended EXCEPT !.iteration = @ + 1, !.pc = "loop"]

\* Lines 657-687, up to the await of the Answer phase or, when it is skipped,
\* up to line 690.
AfterLoop(rec) ==
    LET done == IF rec.metrics.stop_reason = "None"
                THEN [rec EXCEPT !.metrics = Finalize(@, "max_iterations")]
                ELSE rec
    IN IF "answer" \notin rec.skip
       THEN SafeCallback(StartPhase(done, "answer"), "on_answer_start")
       ELSE [done EXCEPT !.final_answer = "Answer phase skipped", !.pc = "append"]

\* history.add_agent_message(query, final_answer): the memory after the call.
\* message_history.py defines no such method (run calls it at line 690, and so
\* do test_memory_fix.py and validate_memory_fix.py, without await); this is
\* the specification's AddTurn (section 4.2) as a synchronous call: the turn
\* gets the next id and goes last; at prune_threshold the oldest turns go.
\* The turn's content is the run that made it.
AddAgentMessage(mem, r) ==
    LET appended == Append(mem.messages, Message(mem.next_id, r))
    IN [messages |-> IF Len(appended) >= DefaultPruneThreshold
                     THEN LastSlice(appended, DefaultPruneTo)
                     ELSE appended,
        next_id |-> NextId(mem.next_id)]

\* A Message needs a non-empty query and a non-empty answer (Message's
\* __post_init__, message_history.py lines 38-43); queries are non-empty here.
TurnRejected(rec) == rec.final_answer = ""

\* Line 690 raises: MessageHistory has no add_agent_message (AttributeError),
\* or the turn is rejected (ValueError).
AppendRaises(rec) == ~workload.has_add_agent_message \/ TurnRejected(rec)

\* Lines 689-693 with _save_history up to its Lock.acquire (463-475): the turn
\* is appended to the run's history, then the session lock is asked for.
\* Without a session the run returns (696-704).
CompleteTurn(r, rec) ==
    IF AppendRaises(rec)
    THEN /\ run' = [run EXCEPT ![r] = Abort(rec)]
         /\ UNCHANGED << mems, locks, lock_owner >>
    ELSE /\ mems' = [mems EXCEPT ![rec.history] = AddAgentMessage(@, r)]
         /\ IF rec.session = NoSession
            THEN /\ run' = [run EXCEPT ![r] =
                              [SafeCallback(rec, "on_metrics_update") EXCEPT !.pc = "done"]]
                 /\ UNCHANGED << locks, lock_owner >>
            ELSE LET lks == GetLock(locks, rec.session, << r, "save" >>)
                     lk == lks[rec.session]
                 IN /\ locks' = lks
                    /\ IF LockFree(lk)
                       THEN /\ lock_owner' = [lock_owner EXCEPT ![lk] = r]
                            /\ run' = [run EXCEPT ![r] =
                                         [rec EXCEPT !.lock = lk, !.pc = "save_set"]]
                       ELSE /\ UNCHANGED lock_owner
                            /\ run' = [run EXCEPT ![r] =
                                         [rec EXCEPT !.lock = lk, !.pc = "save_wait"]]

\* The run goes on to its next await; a run that got its final answer goes
\* through lines 689-693 first.
Continue(r, rec) ==
    IF rec.pc = "append"
    THEN CompleteTurn(r, rec)
    ELSE /\ run' = [run EXCEPT ![r] = rec]
         /\ UNCHANGED << mems, locks, lock_owner >>

notRun == << memVars, anVars, pureVars >>

\* One MessageHistory kept by the Orchestrator for all runs without a session.
EphemeralHistory_Shared(r) == 1

\* _get_or_create_history without a session_id, lines 434-437: the
\* MessageHistory the call makes, named by the run.
EphemeralHistory(r) == r

\* run(query, session_id, skip_phases), lines 502-517 and 434-442: without a
\* session a fresh MessageHistory; with one, get_lock and Lock.acquire.
RunStart(r) ==
    /\ r \in workload.runs
    /\ run[r].pc = "idle"
    /\ \E key \in Keys \cup {NoSession}, skip \in workload.skips :
         LET rec == [IdleRun EXCEPT !.session = key, !.skip = skip,
                                    !.cb = workload.callbacks[r]]
         IN IF key = NoSession
            THEN /\ mems' = [mems EXCEPT ![EphemeralHistory(r)] = NewMemory]
                 /\ run' = [run EXCEPT ![r] =
                              AfterHistory([rec EXCEPT !.history = EphemeralHistory(r)],
                                           NewMemory)]
                 /\ UNCHANGED << locks, lock_owner >>
            ELSE LET lks == GetLock(locks, key, << r, "fetch" >>)
                     lk == lks[key]
                 IN /\ locks' = lks
                    /\ IF LockFree(lk)
                       THEN /\ lock_owner' = [lock_owner EXCEPT ![lk] = r]
                            /\ run' = [run EXCEPT ![r] =
                                         [rec EXCEPT !.lock = lk, !.pc = "fetch_get"]]
                       ELSE /\ UNCHANGED lock_owner
                            /\ run' = [run EXCEPT ![r] =
                                         [rec EXCEPT !.lock = lk, !.pc = "fetch_wait"]]
                    /\ UNCHANGED mems
    /\ UNCHANGED << max_iterations, workload, store, clears, notRun >>

\* Lock.acquire returns to a run that waited for the session lock (442, 475).
LockAcquired(r) ==
    /\ run[r].pc \in {"fetch_wait", "save_wait"}
    /\ lock_owner[run[r].lock] = 0
    /\ lock_owner' = [lock_owner EXCEPT ![run[r].lock] = r]
    /\ run' = [run EXCEPT ![r].pc = IF @ = "fetch_wait" THEN "fetch_get" ELSE "save_set"]
    /\ UNCHANGED << max_iterations, workload, store, locks, mems, clears, notRun >>

\* _get_or_create_history, lines 443-461, under the lock: session_store.get
\* returned.  An existing history is returned (lock released); for a new
\* session a MessageHistory is made and session_store.set awaited.
FetchGet(r) ==
    /\ run[r].pc = "fetch_get"
    /\ LET h == store[run[r].session]
       IN IF h = 0
          THEN /\ mems' = [mems EXCEPT ![r] = NewMemory]
               /\ run' = [run EXCEPT ![r] = [@ EXCEPT !.history = r, !.pc = "fetch_set"]]
               /\ UNCHANGED lock_owner
          ELSE /\ lock_owner' = [lock_owner EXCEPT ![run[r].lock] = 0]
               /\ run' = [run EXCEPT ![r] =
                            AfterHistory([@ EXCEPT !.history = h], mems[h])]
               /\ UNCHANGED mems
    /\ UNCHANGED << max_iterations, workload, store, locks, clears, notRun >>

\* Lines 452 and 461: session_store.set returned, the lock is released.
FetchSet(r) ==
    /\ run[r].pc = "fetch_set"
    /\ store' = [store EXCEPT ![run[r].session] = run[r].history]
    /\ lock_owner' = [lock_owner EXCEPT ![run[r].lock] = 0]
    /\ run' = [run EXCEPT ![r] = AfterHistory(@, mems[run[r].history])]
    /\ UNCHANGED << max_iterations, workload, locks, mems, clears, notRun >>

\* Lines 538-551: the Understand phase ended.
UnderstandDone(r) ==
    /\ run[r].pc = "understand"
    /\ \E outcome \in workload.outcomes :
         run' = [run EXCEPT ![r] =
                   SafeCallbacks(
                     [Chose(Timed(@, "understand", outcome), "understand", outcome,
                            Val("object")) EXCEPT
                        !.understanding = PhaseResult(outcome, Val("object")),
                        !.iteration = 1,
                        !.pc = "loop"],
                     "on_understanding_complete", "on_phase_complete")]
    /\ UNCHANGED << max_iterations, workload, store, locks, lock_owner, mems,
                    clears, notRun >>

\* Lines 556-584 and, when the Plan phase is skipped, 587-627; when the loop
\* is over, 657-693.
LoopTop(r) ==
    /\ run[r].pc = "loop"
    /\ LET rec == run[r]
       IN IF LoopContinues(rec.iteration, max_iterations)
          THEN LET top == SafeCallback(
                                [rec EXCEPT !.metrics.iterations = rec.iteration,
                                            !.snapshot = Snapshot(rec.task_results)],
                                "on_iteration_start")
               IN Continue(r, IF "plan" \notin rec.skip
                              THEN StartPhase(top, "plan")
                              ELSE ExecuteTasks([top EXCEPT !.plan = SkippedValue]))
          ELSE Continue(r, AfterLoop(rec))
    /\ UNCHANGED << max_iterations, workload, store, clears, notRun >>

\* What a Plan phase returns in iteration n: a Plan object (plan.py), or a
\* dict whose tasks are new or those of the first iteration again.
PlanValues(n) ==
    { Val("object") } \cup
    { [Val("dict") EXCEPT !.tasks = {TaskKey(k)}] : k \in {1, n} }

\* Lines 569-627: the Plan phase ended; the tasks are executed.
PlanDone(r) ==
    /\ run[r].pc = "plan"
    /\ \E outcome \in workload.outcomes, value \in PlanValues(run[r].iteration) :
         run' = [run EXCEPT ![r] =
                   ExecuteTasks(SafeCallbacks(
                     [Chose(Timed(@, "plan", outcome), "plan", outcome, value) EXCEPT
                        !.plan = PhaseResult(outcome, value)],
                     "on_plan_created", "on_phase_complete"))]
    /\ UNCHANGED << max_iterations, workload, store, locks, lock_owner, mems,
                    clears, notRun >>

\* What a Reflect phase returns: a dict with is_complete and confidence.
ReflectValues ==
    { [Val("dict") EXCEPT !.is_complete = c, !.confidence = conf] :
        c \in BOOLEAN, conf \in {0, 95} }

\* A ReflectPhase that asks the model in every iteration.
ReflectPhaseValues_NoLimit(default, iteration, max_iter) ==
    IF ~default THEN ReflectValues
    ELSE { [Val("dict") EXCEPT !.is_complete = c] : c \in BOOLEAN }

\* What the Reflect phase in use returns in an iteration.  A custom phase
\* (default FALSE) returns any of ReflectValues.  ReflectPhase.run,
\* reflect.py lines 18-83, returns a dict without confidence; from iteration
\* max_iterations on stream yields isComplete: true and nothing else (lines
\* 76-83), before that is_complete is what the model's JSON says (line 57).
ReflectPhaseValues(default, iteration, max_iter) ==
    IF ~default THEN ReflectValues
    ELSE IF iteration >= max_iter THEN { [Val("dict") EXCEPT !.is_complete = TRUE] }
    ELSE { [Val("dict") EXCEPT !.is_complete = c] : c \in BOOLEAN }

\* Lines 618-693: the Reflect phase ended; should_continue decides.
ReflectDone(r) ==
    /\ run[r].pc = "reflect"
    /\ \E outcome \in workload.outcomes,
          value \in ReflectPhaseValues(workload.default_reflect, run[r].iteration,
                                       max_iterations) :
         LET rec == SafeCallbacks(
                      [Chose(Timed(run[r], "reflect", outcome), "reflect", outcome,
                             value) EXCEPT
                         !.reflection = PhaseResult(outcome, value)],
                      "on_reflection_complete", "on_phase_complete")
             decision == ShouldContinue(rec.reflection, rec.iteration, max_iterations,
                                        rec.task_results, rec.snapshot)
         IN IF decision.continue
            THEN Continue(r, [rec EXCEPT !.iteration = @ + 1, !.pc = "loop"])
            ELSE Continue(r, AfterLoop([rec EXCEPT
                                          !.metrics = Finalize(@, decision.reason)]))
    /\ UNCHANGED << max_iterations, workload, store, clears, notRun >>

\* What an Answer phase returns: the text, or an async iterator of chunks.
AnswerValues == { [Val(kind) EXCEPT !.text = "answer"] : kind \in {"str", "aiter"} }

\* Lines 665-693: the Answer phase ended.  A str is the final answer, an async
\* iterator is consumed, anything else leaves the final answer empty.
AnswerDone(r) ==
    /\ run[r].pc = "answer"
    /\ \E outcome \in workload.outcomes, value \in AnswerValues :
         LET stream == PhaseResult(outcome, value)
             rec == [Chose(Timed(run[r], "answer", outcome), "answer", outcome,
                           value) EXCEPT !.stream = stream]
         IN IF stream.kind = "aiter"
            THEN Continue(r, [rec EXCEPT !.pc = "stream"])
            ELSE Continue(r, [SafeCallbacks(rec, "on_answer_stream",
                                            "on_phase_complete") EXCEPT
                                !.final_answer = IF stream.kind = "str"
                                                 THEN stream.text ELSE "",
                                !.pc = "append"])
    /\ UNCHANGED << max_iterations, workload, store, clears, notRun >>

\* Lines 680-693: the async iterator is exhausted, or raises.
StreamDone(r) ==
    /\ run[r].pc = "stream"
    /\ \E ok \in BOOLEAN :
         IF ok
         THEN Continue(r, [SafeCallbacks(Chose(run[r], "stream", "ok", NoValue),
                                         "on_answer_stream", "on_phase_complete") EXCEPT
                             !.final_answer = run[r].stream.text,
                             !.pc = "append"])
         ELSE Continue(r, Abort(Chose(run[r], "stream", "raise", NoValue)))
    /\ UNCHANGED << max_iterations, workload, store, clears, notRun >>

\* _save_history, lines 476-482, and run, 696-704: session_store.set returned,
\* the lock is released, the run returns its answer.
SaveSet(r) ==
    /\ run[r].pc = "save_set"
    /\ store' = [store EXCEPT ![run[r].session] = run[r].history]
    /\ lock_owner' = [lock_owner EXCEPT ![run[r].lock] = 0]
    /\ run' = [run EXCEPT ![r] =
                 [SafeCallback(@, "on_metrics_update") EXCEPT !.pc = "done"]]
    /\ UNCHANGED << max_iterations, workload, locks, mems, clears, notRun >>

\* clear_session, lines 720-723, with InMemorySessionStore.delete, 133-135.
ClearSession(k) ==
    /\ clears < MaxClears
    /\ clears' = clears + 1
    /\ store' = [store EXCEPT ![k] = 0]
    /\ locks' = [locks EXCEPT ![k] = NoLock]
    /\ UNCHANGED << max_iterations, workload, lock_owner, mems, run, notRun >>

\* The skip_phases arguments used.
SkipSets == { {}, {"understand", "plan"}, {"execute", "reflect"}, {"answer"}, PhaseNames }

\* Orchestrator(options) with a fresh InMemorySessionStore, lines 281-320.
\* has_add_agent_message: whether the MessageHistory in use provides
\* add_agent_message; the one of message_history.py does not (FALSE).
RunInit(callers_of_run, skips, outcomes, iters) ==
    /\ max_iterations \in iters
    /\ \E has \in BOOLEAN :
         workload = [runs |-> callers_of_run, skips |-> skips, outcomes |-> outcomes,
                     has_add_agent_message |-> has, summarization |-> TRUE,
                     callbacks |-> [r \in Runs |-> NoCallbacks], logged |-> FALSE,
                     default_reflect |-> FALSE]
    /\ store = [k \in Keys |-> 0]
    /\ locks = [k \in Keys |-> NoLock]
    /\ lock_owner = [l \in LockIds |-> 0]
    /\ mems = [r \in Runs |-> NewMemory]
    /\ run = [r \in Runs |-> IdleRun]
    /\ clears = 0
    /\ MemoryAtRest
    /\ AnalyzerAtRest
    /\ PureAtRest

\* What a phase may do with the MessageHistory it is given (understand and
\* plan as conversation_history, answer as message_history): add a turn of
\* its own, or clear it.
HistoryUses == {"add", "clear"}

UseHistory(h, use) ==
    IF use = "add"
    THEN [h EXCEPT !.messages = Append(@, Message(h.next_id, 0)),
                   !.next_id = NextId(@)]
    ELSE [h EXCEPT !.messages = <<>>, !.next_id = ClearedId]

\* A phase that was given the working history (lines 543, 578, 672) changes
\* it while run awaits the phase.
PhaseUsesHistory(r) ==
    /\ run[r].pc \in {"understand", "plan", "answer"}
    /\ run[r].touched < MaxTouches
    /\ \E use \in HistoryUses :
         IF run[r].working.alias
         THEN /\ mems' = [mems EXCEPT ![run[r].history] =
                            UseHistory([messages |-> @.messages, next_id |-> @.next_id], use)]
              /\ run' = [run EXCEPT ![r].touched = @ + 1]
         ELSE /\ run' = [run EXCEPT ![r].working = UseHistory(@, use),
                                    ![r].touched = @ + 1]
              /\ UNCHANGED mems
    /\ UNCHANGED << max_iterations, workload, store, locks, lock_owner, clears, notRun >>

\* One Run call, every phase outcome.
InitRun == RunInit({1}, SkipSets, Outcomes, 1..MaxRunIterations)

\* With one caller Lock.acquire never suspends.
RunNext ==
    \E r \in Runs :
        \/ RunStart(r)
        \/ FetchGet(r)
        \/ FetchSet(r)
        \/ UnderstandDone(r)
        \/ LoopTop(r)
        \/ PlanDone(r)
        \/ ReflectDone(r)
        \/ AnswerDone(r)
        \/ StreamDone(r)
        \/ SaveSet(r)

SpecRun == InitRun /\ [][RunNext]_vars

\* Two Run calls on one InMemorySessionStore, the phases ending in time.
InitSessions == RunInit(Runs, {PhaseNames, {}}, {"ok"}, {1})

SessionsNext ==
    \E r \in Runs :
        \/ RunStart(r)
        \/ LockAcquired(r)
        \/ FetchGet(r)
        \/ FetchSet(r)
        \/ UnderstandDone(r)
        \/ LoopTop(r)
        \/ PlanDone(r)
        \/ ReflectDone(r)
        \/ AnswerDone(r)
        \/ StreamDone(r)
        \/ SaveSet(r)

SpecSessions == InitSessions /\ [][SessionsNext]_vars

\* Two Run calls whose phases use the history they are given, with and
\* without enable_history_summarization; each run is Understand and Answer.
InitWindow ==
    /\ max_iterations = 1
    /\ \E has \in BOOLEAN, enabled \in BOOLEAN :
         workload = [runs |-> Runs, skips |-> {{"plan", "execute", "reflect"}},
                     outcomes |-> {"ok"},
                     has_add_agent_message |-> has, summarization |-> enabled,
                     callbacks |-> [r \in Runs |-> NoCallbacks], logged |-> FALSE,
                     default_reflect |-> FALSE]
    /\ store = [k \in Keys |-> 0]
    /\ locks = [k \in Keys |-> NoLock]
    /\ lock_owner = [l \in LockIds |-> 0]
    /\ mems = [r \in Runs |-> NewMemory]
    /\ run = [r \in Runs |-> IdleRun]
    /\ clears = 0
    /\ MemoryAtRest
    /\ AnalyzerAtRest
    /\ PureAtRest

WindowNext ==
    \E r \in Runs :
        \/ RunStart(r)
        \/ LockAcquired(r)
        \/ FetchGet(r)
        \/ FetchSet(r)
        \/ PhaseUsesHistory(r)
        \/ UnderstandDone(r)
        \/ LoopTop(r)
        \/ AnswerDone(r)
        \/ StreamDone(r)
        \/ SaveSet(r)

SpecWindow == InitWindow /\ [][WindowNext]_vars

\* ------------------------------------------------ context window: claims

\* The run is between the fetch of its history and the append of its turn.
Between(r) == run[r].pc \in {"understand", "loop", "plan", "reflect", "answer", "stream"}

\* C21: with the context window built (enable_history_summarization), no step
\* a run or its phases take between the fetch of the history and the final
\* append changes a MessageHistory of the store (turns and id counter),
\* whatever the phases do with the working history; the one step that does
\* change one appends the run's turn last in the run's own history and leaves
\* the working history as it was.
C21_WindowIsAView ==
    [][\A r \in Runs :
         (workload.summarization /\ Between(r) /\ run'[r] # run[r])
            => \/ mems' = mems
               \/ /\ run'[r].pc \in {"done", "save_set", "save_wait"}
                  /\ mems' = [mems EXCEPT ![run[r].history] =
                                [messages |-> Append(@.messages, Message(@.next_id, r)),
                                 next_id |-> @.next_id + 1]]
                  /\ run'[r].working = run[r].working]_vars

\* C21 witness: run 2 fetched a history holding run 1's turn, its phases
\* cleared the working history, and its own turn went into the history.
C21_Witness ==
    /\ workload.summarization
    /\ run[2].pc = "done" /\ run[2].touched > 0
    /\ run[2].working.messages = <<>>
    /\ mems[run[2].history].messages = << Message(0, 1), Message(1, 2) >>

\* Two Run calls and clear_session calls.
ClearNext ==
    \/ \E r \in Runs :
        \/ RunStart(r)
        \/ LockAcquired(r)
        \/ FetchGet(r)
        \/ FetchSet(r)
        \/ UnderstandDone(r)
        \/ LoopTop(r)
        \/ PlanDone(r)
        \/ ReflectDone(r)
        \/ AnswerDone(r)
        \/ StreamDone(r)
        \/ SaveSet(r)
    \/ \E k \in Keys : ClearSession(k)

SpecClear == InitSessions /\ [][ClearNext]_vars

\* One Run call on an event loop that keeps running it: every await of the run
\* returns (a phase by its deadline at the latest).
SpecRunFair == InitRun /\ [][RunNext]_vars /\ WF_vars(RunNext)

\* ------------------------------------------------------ Orchestrator: claims

Ended(r) == run[r].pc \in {"done", "raised"}

\* The run is past its Reflect phase of the only iteration.
PastLoop(r) == run[r].pc \in {"answer", "stream", "save_wait", "save_set", "done", "raised"}

Inconclusive(reflection) == ~(reflection.is_dict /\ reflection.is_complete)

\* C5: with max_iterations = 1 and no phase skipped, Plan, Execute and Reflect
\* are each invoked exactly once; when the reflection does not signal
\* completion the loop stops with MaxIterations; and the Answer phase has been
\* invoked (once) as soon as the loop is left.
C5_SingleIteration ==
    \A r \in Runs :
        (max_iterations = 1 /\ run[r].skip = {})
        => /\ \A p \in PhaseNames : run[r].calls[p] <= 1
           /\ PastLoop(r)
              => /\ run[r].calls["plan"] = 1
                 /\ run[r].calls["execute"] = 1
                 /\ run[r].calls["reflect"] = 1
                 /\ run[r].calls["answer"] = 1
                 /\ run[r].metrics.iterations = 1
                 /\ (Inconclusive(run[r].reflection) /\ run[r].pc # "raised")
                    => run[r].metrics.stop_reason = "max_iterations"

\* C5 witness: a single-iteration run whose reflection was inconclusive has
\* stopped with MaxIterations and its Answer phase has returned.
C5_Witness ==
    /\ max_iterations = 1
    /\ run[1].skip = {}
    /\ run[1].pc = "stream"
    /\ Inconclusive(run[1].reflection)
    /\ run[1].reflection.confidence = 95
    /\ run[1].metrics.stop_reason = "max_iterations"
    /\ run[1].metrics.phase_attempts["answer"] = 1

\* The local a timed phase's result is bound to.
ResultOf(rec, p) ==
    CASE p = "understand" -> rec.understanding
      [] p = "plan" -> rec.plan
      [] p = "reflect" -> rec.reflection
      [] p = "answer" -> rec.stream
      [] OTHER -> NoValue

Count(errors, p) == Cardinality({ i \in 1..Len(errors) : errors[i] = p })

\* The step in which the phase run r awaits exceeds its deadline.
DeadlineExceeded(r) ==
    run[r].pc \in TimedPhases /\ run'[r].pc # run[r].pc /\ run'[r].last = "timeout"

Starts(r, p) == run'[r].calls[p] = run[r].calls[p] + 1

\* The invocations of phase p made so far in run r, when p is not skipped.
Invoked(r, p) == run[r].calls[p]

\* C34: Understand has completed before the first Plan starts; a Plan starts
\* only when every earlier Execute and Reflect has completed, Execute only
\* when the iteration's Plan has completed, Reflect only when its Execute has;
\* with Reflect not skipped the iteration number goes up only in the step that
\* ends a Reflect on which should_continue said continue; Answer starts only
\* when the loop is over, and no loop phase starts after it; Understand and
\* Answer are invoked at most once.
C34_PhasesInOrder ==
    /\ [](\A r \in Runs :
            LET rec == run[r]
                on(p) == p \notin rec.skip
            IN /\ Invoked(r, "understand") <= 1 /\ Invoked(r, "answer") <= 1
               /\ (Invoked(r, "plan") > 0 /\ on("understand"))
                     => /\ Invoked(r, "understand") = 1
                        /\ rec.pc # "understand"
                        /\ rec.understanding # NoValue
               /\ (rec.pc = "plan")
                     => /\ on("execute") => Invoked(r, "execute") = Invoked(r, "plan") - 1
                        /\ on("reflect") => Invoked(r, "reflect") = Invoked(r, "plan") - 1
               /\ (rec.pc = "reflect")
                     => /\ on("plan") => Invoked(r, "plan") = Invoked(r, "reflect")
                        /\ on("execute") => Invoked(r, "execute") = Invoked(r, "reflect")
               /\ (Invoked(r, "answer") > 0)
                     => rec.pc \notin {"understand", "loop", "plan", "reflect"})
    /\ [][\A r \in Runs :
            /\ (run[r].iteration >= 1 /\ run'[r].iteration = run[r].iteration + 1
                /\ "reflect" \notin run[r].skip)
                  => /\ run[r].pc = "reflect"
                     /\ ShouldContinue(run'[r].reflection, run[r].iteration,
                                       max_iterations, run'[r].task_results,
                                       run'[r].snapshot).continue
            /\ Starts(r, "answer")
                  => \/ /\ run[r].pc = "loop"
                        /\ ~LoopContinues(run[r].iteration, max_iterations)
                     \/ /\ run[r].pc = "reflect"
                        /\ ~ShouldContinue(run'[r].reflection, run[r].iteration,
                                           max_iterations, run'[r].task_results,
                                           run'[r].snapshot).continue
            /\ (Invoked(r, "answer") > 0)
                  => \A p \in {"understand", "plan", "execute", "reflect"} : ~Starts(r, p)]_vars

\* C34 as stated: the iteration number goes up only in the step that ends a
\* Reflect on which should_continue said continue, in every run.
C34_NextIterationNeedsReflect ==
    [][\A r \in Runs :
         (run[r].iteration >= 1 /\ run'[r].iteration = run[r].iteration + 1)
            => /\ run[r].pc = "reflect"
               /\ ShouldContinue(run'[r].reflection, run[r].iteration,
                                 max_iterations, run'[r].task_results,
                                 run'[r].snapshot).continue]_vars

\* Two full iterations were made and the Answer phase is awaited.
C34_Witness ==
    /\ run[1].skip = {}
    /\ run[1].pc = "answer"
    /\ run[1].calls = [p \in PhaseNames |-> IF p \in {"understand", "answer"} THEN 1 ELSE 2]

\* C35: when execute_tasks raises in iteration n the run is not aborted: the
\* key __executor_error_iter_<n> is added to task_results and is the only
\* assignment made to it, the error is recorded in the metrics under
\* 'execute', and the same iteration goes on to Reflect.
C35_ExecutorFailureIsAnEntry ==
    [][\A r \in Runs :
         (Starts(r, "execute") /\ ExecuteRaises(run'[r].plan))
            => LET n == run[r].iteration
               IN /\ run'[r].pc # "raised"
                  /\ run'[r].task_results = run[r].task_results \cup {ErrorKey(n)}
                  /\ run'[r].writes = run[r].writes \cup {<< ErrorKey(n), n >>}
                  /\ run'[r].metrics.errors = Append(run[r].metrics.errors, "execute")
                  /\ run'[r].metrics.stop_reason = "None"
                  /\ run'[r].iteration = n
                  /\ run'[r].completed_plans = run[r].completed_plans + 1
                  /\ "reflect" \notin run[r].skip
                        => run'[r].pc = "reflect" /\ Starts(r, "reflect")]_vars

\* The executor raised in the second iteration, after the first one's task
\* was executed; Reflect is awaited.
C35_Witness ==
    /\ run[1].pc = "reflect"
    /\ run[1].iteration = 2
    /\ ~run[1].plan.is_dict
    /\ run[1].task_results = {TaskKey(1), ErrorKey(2)}
    /\ run[1].metrics.errors = << "execute" >>

\* ------------------------------------------------ default Reflect: claims

\* Orchestrator(options) without a custom Reflect phase, lines 303-309: the
\* Reflect phase is ReflectPhase(model, max_iterations=self.max_iterations).
InitDefaultReflect ==
    /\ max_iterations \in 1..MaxRunIterations
    /\ \E has \in BOOLEAN :
         workload = [runs |-> {1},
                     skips |-> {{}, {"answer"}, {"execute", "reflect"}},
                     outcomes |-> Outcomes,
                     has_add_agent_message |-> has, summarization |-> TRUE,
                     callbacks |-> [r \in Runs |-> NoCallbacks], logged |-> FALSE,
                     default_reflect |-> TRUE]
    /\ store = [k \in Keys |-> 0]
    /\ locks = [k \in Keys |-> NoLock]
    /\ lock_owner = [l \in LockIds |-> 0]
    /\ mems = [r \in Runs |-> NewMemory]
    /\ run = [r \in Runs |-> IdleRun]
    /\ clears = 0
    /\ MemoryAtRest
    /\ AnalyzerAtRest
    /\ PureAtRest

SpecDefaultReflect == InitDefaultReflect /\ [][RunNext]_vars

\* C40: with the default ReflectPhase, a Reflect of the last permitted
\* iteration that ends normally reports completion and the run stops with
\* reflection_complete (an abort after the loop replaces the reason by error);
\* a run whose stop reason is max_iterations had its Reflect skipped, or its
\* last Reflect failed or timed out.
C40_LastReflectCompletes ==
    /\ [][\A r \in Runs :
            (/\ run[r].pc = "reflect" /\ run'[r].pc # "reflect"
             /\ run[r].iteration >= max_iterations
             /\ ~run'[r].reflection.failed)
               => /\ run'[r].reflection.is_complete
                  /\ ShouldContinue(run'[r].reflection, run[r].iteration,
                                    max_iterations, run'[r].task_results,
                                    run'[r].snapshot)
                       = [continue |-> FALSE, reason |-> "reflection_complete"]
                  /\ run'[r].pc # "raised"
                        => run'[r].metrics.stop_reason = "reflection_complete"
                  /\ run'[r].iteration = run[r].iteration]_vars
    /\ [](\A r \in Runs :
            run[r].metrics.stop_reason = "max_iterations"
               => "reflect" \in run[r].skip \/ run[r].reflection.failed)

\* The Reflect of the first iteration asked for more, the one of the second
\* and last iteration ended the run; the Answer phase is awaited.
C40_Witness ==
    /\ max_iterations = 2
    /\ run[1].pc = "answer"
    /\ run[1].iteration = 2
    /\ run[1].calls["reflect"] = 2
    /\ run[1].reflection.is_complete
    /\ run[1].metrics.stop_reason = "reflection_complete"

\* ------------------------------------------------------ deadlines: claims

\* One Run call whose phases return or run into their deadline.
InitDeadlines == RunInit({1}, {{}, {"answer"}}, {"ok", "timeout"}, 1..MaxRunIterations)

\* What the event loop and the deadlines guarantee to a run: Lock.acquire and
\* the InMemorySessionStore's get and set return, and asyncio.wait_for ends
\* the await of Understand, Plan, Reflect and Answer at the deadline
\* (_run_phase_with_timeout, line 377).  The async iterator of the answer is
\* consumed outside wait_for (lines 680-682): nothing makes it end.
DeadlineFairness ==
    \A r \in Runs :
        /\ WF_vars(RunStart(r))
        /\ WF_vars(FetchGet(r))
        /\ WF_vars(FetchSet(r))
        /\ WF_vars(UnderstandDone(r))
        /\ WF_vars(LoopTop(r))
        /\ WF_vars(PlanDone(r))
        /\ WF_vars(ReflectDone(r))
        /\ WF_vars(AnswerDone(r))
        /\ WF_vars(SaveSet(r))

SpecDeadlines == InitDeadlines /\ [][RunNext]_vars /\ DeadlineFairness

\* C33 (as claimed): every run that was started ends, by returning or by
\* raising, after at most max_iterations iterations, whatever its phases do.
C33_EveryRunTerminates ==
    /\ [](\A r \in Runs : run[r].metrics.iterations <= max_iterations)
    /\ \A r \in Runs : (run[r].pc # "idle") ~> Ended(r)

\* -------------------------------------------------------- sessions: claims

\* Run r is inside the lock-guarded section of _get_or_create_history or of
\* _save_history.
InSection(r) == run[r].pc \in {"fetch_get", "fetch_set", "save_set"}

HasSession(r) == run[r].pc # "idle" /\ run[r].session \in Keys

SameKey(r1, r2) == HasSession(r1) /\ HasSession(r2) /\ run[r1].session = run[r2].session

DistinctKeys(r1, r2) == HasSession(r1) /\ HasSession(r2) /\ run[r1].session # run[r2].session

\* C7: of two runs sharing a session key at most one is inside the
\* lock-guarded fetch-or-create or save section; they use one Lock; every
\* memory either of them obtained for the key is the same object (so one
\* MessageHistory is created for a new key), and it is the one the store holds
\* once set.
C7_SameKeySerialized ==
    \A r1, r2 \in Runs :
        (r1 # r2 /\ SameKey(r1, r2))
        => /\ ~(InSection(r1) /\ InSection(r2))
           /\ run[r1].lock = run[r2].lock
           /\ (run[r1].history # 0 /\ run[r2].history # 0)
              => run[r1].history = run[r2].history
           /\ (run[r1].history # 0 /\ store[run[r1].session] # 0)
              => store[run[r1].session] = run[r1].history

\* C7 witness: both runs named key k1; run 1 created the memory, run 2 waited
\* for the lock at fetch and got the same memory.
C7_Witness ==
    /\ SameKey(1, 2)
    /\ run[1].history = 1 /\ run[2].history = 1
    /\ run[2].lock = << 1, "fetch" >>
    /\ run[1].pc = "answer" /\ run[2].pc = "answer"

\* C8: when a run with a session changes its session's memory, it holds the
\* session lock; and the turn of a run that got a non-empty final answer is in
\* the session's memory when the run has ended.
C8_MutationsUnderLock ==
    [][\A r \in Runs :
          /\ (/\ run'[r] # run[r]
              /\ run[r].session \in Keys
              /\ run[r].history # 0
              /\ mems'[run[r].history] # mems[run[r].history])
             => lock_owner[locks[run[r].session]] = r
          /\ (/\ Ended(r)'
              /\ run'[r].session \in Keys
              /\ run'[r].final_answer # "")
             => \E i \in 1..Len(mems'[run'[r].history].messages) :
                   mems'[run'[r].history].messages[i].query = r]_vars

\* C9: of two runs with distinct session keys neither waits for a lock (the
\* other cannot hold its lock), their locks and memories are different
\* objects, a memory holds only turns of its own run, and a step of one run
\* leaves the other's locals (task results, plans, metrics) and memory as
\* they were.
C9_DistinctKeysIndependent ==
    [][\A r1, r2 \in Runs :
          (r1 # r2 /\ DistinctKeys(r1, r2)' /\ DistinctKeys(r1, r2))
          => /\ run'[r1].pc \notin {"fetch_wait", "save_wait"}
             /\ (run'[r1].lock # NoLock) => run'[r1].lock # run'[r2].lock
             /\ (run'[r1].history # 0) => run'[r1].history # run'[r2].history
             /\ (run'[r1].history # 0)
                => \A i \in 1..Len(mems'[run'[r1].history].messages) :
                      mems'[run'[r1].history].messages[i].query = r1
             /\ (run'[r1] # run[r1])
                => /\ run'[r2] = run[r2]
                   /\ (run[r2].history # 0)
                      => mems'[run[r2].history] = mems[run[r2].history]]_vars

\* C9 witness: the runs named k1 and k2, both fetched without waiting, and
\* run 1 is in its Plan phase while run 2 has appended its turn and is saving.
C9_Witness ==
    /\ DistinctKeys(1, 2)
    /\ run[1].pc = "plan"
    /\ run[2].pc = "save_set"
    /\ Len(mems[run[2].history].messages) = 1
    /\ mems[run[1].history].messages = <<>>

\* C10: once a key has a Lock, get, set, delete and clear_session leave it the
\* key's Lock.
C10_LockKept ==
    [][\A k \in Keys : (locks[k] # NoLock) => (locks'[k] = locks[k])]_vars

\* ============================================================ TaskExecutor

\* ToolExecutor.execute_tool, tool_executor.py lines 57-64: a name that is not
\* in the registry gives {"tool", "error": "Tool not found", "failed": True}.
ExecuteTool(registry, tool_name) ==
    IF tool_name \in registry THEN Entry(FALSE) ELSE Entry(TRUE)

\* task_results[task_id] = ... raises TypeError for a key that is not hashable.
StoreRaises(task_id) == task_id = ListId

\* The loop of execute_tasks, task_executor.py lines 44-90, from task i on.
\* A task that is no dict or has no id is skipped (46-53).  The result stored
\* (60-67) is built from the task alone: the tool executor is not called.
\* When the store raises, the handler (77-83) stores under the same key, and
\* that raises out of execute_tasks.
RECURSIVE TaskLoop(_, _, _)
TaskLoop(tasks, i, results) ==
    IF i > Len(tasks) THEN [results |-> results, status |-> "returned"]
    ELSE LET t == tasks[i]
         IN IF ~t.is_dict \/ t.id = NoId THEN TaskLoop(tasks, i + 1, results)
            ELSE IF StoreRaises(t.id) THEN [results |-> results, status |-> "raised"]
            ELSE TaskLoop(tasks, i + 1, [results EXCEPT ![t.id] = Entry(FALSE)])

\* execute_tasks, lines 38-42: plan.get raises on an object without get; tasks
\* that is no list ends the call.
ExecuteTasksOn(plan, results) ==
    IF ~plan.is_dict THEN [results |-> results, status |-> "raised"]
    ELSE IF ~plan.is_list THEN [results |-> results, status |-> "returned"]
    ELSE TaskLoop(plan.tasks, 1, results)

RECURSIVE SeqsUpTo(_, _)
SeqsUpTo(S, n) ==
    IF n = 0 THEN { <<>> }
    ELSE LET shorter == SeqsUpTo(S, n - 1)
         IN shorter \cup { Append(q, x) : q \in shorter, x \in S }

ExPlans ==
    { NoPlan, [is_dict |-> TRUE, is_list |-> FALSE, tasks |-> <<>>] } \cup
    { [is_dict |-> TRUE, is_list |-> TRUE, tasks |-> q] : q \in SeqsUpTo(PlanTasks, MaxPlanTasks) }

InitExecutor ==
    /\ ex_plan \in ExPlans
    /\ ex_results = EmptyResults
    /\ ex_status = "called"
    /\ MemoryAtRest
    /\ AnalyzerAtRest
    /\ RunsAtRest
    /\ SelectorAtRest
    /\ CallsAtRest

\* One call of TaskExecutor.execute_tasks (it has no await that suspends).
ExecuteTasksCall ==
    /\ ex_status = "called"
    /\ LET out == ExecuteTasksOn(ex_plan, ex_results)
       IN ex_results' = out.results /\ ex_status' = out.status
    /\ UNCHANGED << ex_plan, memVars, anVars, runVars, selVars, callVars >>

ExecutorNext == ExecuteTasksCall

SpecExecutor == InitExecutor /\ [][ExecutorNext]_vars

\* ------------------------------------------------------ TaskExecutor: claims

\* Task i of the plan is one execute_tasks does not skip.
HasId(i) == ex_plan.tasks[i].is_dict /\ ex_plan.tasks[i].id # NoId

\* No later task of the plan carries the id of task i.
LastWithId(i) ==
    \A j \in (i + 1)..Len(ex_plan.tasks) : ex_plan.tasks[j].id # ex_plan.tasks[i].id

Unregistered(i) ==
    ex_plan.tasks[i].tool # NoTool /\ ExecuteTool(Registry, ex_plan.tasks[i].tool).failed

\* C11: after execute_tasks returned, a task that names an unregistered tool has
\* an entry with failed: true in task_results, and every other task with an id
\* has its entry.
C11_UnregisteredToolFails ==
    (ex_status = "returned" /\ ex_plan.is_list)
    => \A i \in 1..Len(ex_plan.tasks) :
          HasId(i)
          => /\ ex_results[ex_plan.tasks[i].id].present
             /\ (Unregistered(i) /\ LastWithId(i))
                => ex_results[ex_plan.tasks[i].id].failed

\* C12: execute_tasks does not raise whatever a task of a list of tasks is, and
\* once it is over every task with an id has an entry, a failed task's entry
\* carrying failed and error.
C12_TaskIsolation ==
    (ex_status # "called" /\ ex_plan.is_dict /\ ex_plan.is_list)
    => /\ ex_status = "returned"
       /\ \A i \in 1..Len(ex_plan.tasks) :
             (HasId(i) /\ ~StoreRaises(ex_plan.tasks[i].id))
             => ex_results[ex_plan.tasks[i].id].present

\* ========================================================= RelevanceSelector

Min2(a, b) == IF a <= b THEN a ELSE b

\* _select_by_hybrid_score, lines 469-474: (1 - w) * similarity + w * recency
\* with recency = position / (n - 1) (1 for a single message), scaled by
\* 100 * (n - 1) to stay in the integers.  pos is zero-based.
HybridScore(cfg, sim, pos, n) ==
    LET scale == IF n > 1 THEN n - 1 ELSE 1
        recency == IF n > 1 THEN pos ELSE 1
    IN (10 - cfg.recency_weight) * sim * scale + cfg.recency_weight * recency * 10

\* The most recent of the valid indices taken, whatever their scores.
TopIndices_MostRecent(valid, score, k) ==
    { T \in SUBSET valid :
        /\ Cardinality(T) = Min2(k, Cardinality(valid))
        /\ \A i \in T, j \in valid \ T : i > j }

\* Lines 483-488: the valid indices sorted by descending score, the first
\* max_messages taken.  Equal scores may come in either order.
TopIndices(valid, score, k) ==
    { T \in SUBSET valid :
        /\ Cardinality(T) = Min2(k, Cardinality(valid))
        /\ \A i \in T, j \in valid \ T : score[i] >= score[j] }

\* Lines 491-492: the messages at the indices, in the order of the list.
RECURSIVE Chronological(_, _, _)
Chronological(msgs, T, i) ==
    IF i > Len(msgs) THEN <<>>
    ELSE (IF i \in T THEN << msgs[i] >> ELSE <<>>) \o Chronological(msgs, T, i + 1)

\* _select_by_hybrid_score, lines 446-492: the lists it may return.
SelectByHybridScore(msgs, cfg, sims) ==
    LET n == Len(msgs)
        score == [i \in 1..n |-> HybridScore(cfg, sims[i], i - 1, n)]
        valid == { i \in 1..n : sims[i] >= cfg.similarity_threshold }
    IN IF valid = {}
       THEN { LastSlice(msgs, cfg.max_messages) }
       ELSE { Chronological(msgs, T, 1) : T \in TopIndices(valid, score, cfg.max_messages) }

\* The limit test made strict.
Select_StrictLimit(msgs, cfg, sims, embed_ok) ==
    IF Len(msgs) = 0 THEN { <<>> }
    ELSE IF Len(msgs) < cfg.max_messages THEN { msgs }
    ELSE IF ~cfg.use_embeddings THEN { LastSlice(msgs, cfg.max_messages) }
    ELSE IF ~embed_ok THEN { LastSlice(msgs, cfg.max_messages) }
    ELSE SelectByHybridScore(msgs, cfg, sims)

\* RelevanceSelector.select, lines 416-444: the lists it may return.  embed_ok:
\* the embedding provider and the scoring did not raise.
Select(msgs, cfg, sims, embed_ok) ==
    IF Len(msgs) = 0 THEN { <<>> }
    ELSE IF Len(msgs) <= cfg.max_messages THEN { msgs }
    ELSE IF ~cfg.use_embeddings THEN { LastSlice(msgs, cfg.max_messages) }
    ELSE IF ~embed_ok THEN { LastSlice(msgs, cfg.max_messages) }
    ELSE SelectByHybridScore(msgs, cfg, sims)

\* MessageHistory.select_relevant_messages, lines 698-720, on the snapshot of
\* _messages.
SelectRelevantMessages(msgs, cfg, sims, embed_ok) ==
    IF Len(msgs) = 0 THEN { <<>> } ELSE Select(msgs, cfg, sims, embed_ok)

\* The turns a memory may hold: ids increasing, starting at 0 or, after a
\* pruning, later.
SelectMessages ==
    { [i \in 1..n |-> Message(first + i - 1, i)] : n \in 0..MaxSelectLen, first \in {0, 2} }

SelectQueries == {"q1", "q2"}

SelectArgs ==
    UNION { [query : SelectQueries, messages : {m},
             config : { RelevanceConfig(k, use) : k \in 0..MaxSelectLen, use \in BOOLEAN },
             similarities : [1..Len(m) -> Similarities],
             embed_ok : BOOLEAN] : m \in SelectMessages }

InitSelector ==
    /\ sel_args \in SelectArgs
    /\ sel_result = <<>>
    /\ sel_status = "called"
    /\ MemoryAtRest
    /\ AnalyzerAtRest
    /\ RunsAtRest
    /\ ExecutorAtRest
    /\ CallsAtRest

\* One call of select_relevant_messages.
SelectRelevantMessagesCall ==
    /\ sel_status = "called"
    /\ \E out \in SelectRelevantMessages(sel_args.messages, sel_args.config,
                                         sel_args.similarities, sel_args.embed_ok) :
         sel_result' = out
    /\ sel_status' = "returned"
    /\ UNCHANGED << sel_args, memVars, anVars, runVars, exVars, callVars >>

SelectorNext == SelectRelevantMessagesCall

SpecSelector == InitSelector /\ [][SelectorNext]_vars

\* C18: select_relevant_messages on a memory of at most max_messages turns
\* returns all the turns held, in the order of the list, whatever the query
\* and its similarities; on an empty memory it returns the empty list.
C18_SmallMemoryReturnedWhole ==
    sel_status = "returned"
        => /\ Len(sel_args.messages) <= sel_args.config.max_messages
                => sel_result = sel_args.messages
           /\ sel_args.messages = <<>> => sel_result = <<>>

\* C18 witness: a memory of exactly max_messages turns, embeddings in use and
\* only the oldest turn similar to the query; all turns were returned.
C18_Witness ==
    /\ sel_status = "returned"
    /\ Len(sel_args.messages) = 2 /\ sel_args.config.max_messages = 2
    /\ sel_args.config.use_embeddings /\ sel_args.embed_ok
    /\ sel_args.similarities = << 2 * DefaultSimilarityThreshold, 0 >>
    /\ sel_result = sel_args.messages

\* The call returned on a memory of more than max_messages turns.
OverLimit ==
    sel_status = "returned" /\ Len(sel_args.messages) > sel_args.config.max_messages

\* The positions in the memory of the turns returned (the turns of a memory
\* differ in their ids).
Selected ==
    { i \in 1..Len(sel_args.messages) :
        \E j \in 1..Len(sel_result) : sel_result[j] = sel_args.messages[i] }

\* The turns whose similarity to the query reaches the threshold.
Passing ==
    { i \in 1..Len(sel_args.messages) :
        sel_args.similarities[i] >= sel_args.config.similarity_threshold }

\* The scoring ran: embeddings are in use and the provider did not fail.
Scored == sel_args.config.use_embeddings /\ sel_args.embed_ok

\* The result is made of stored turns, each at most once, oldest first.
ChronologicalSubsequence ==
    /\ \A j \in 1..Len(sel_result) :
         \E i \in 1..Len(sel_args.messages) : sel_result[j] = sel_args.messages[i]
    /\ \A j, k \in 1..Len(sel_result) :
         j < k => \E a, b \in 1..Len(sel_args.messages) :
                    /\ a < b
                    /\ sel_result[j] = sel_args.messages[a]
                    /\ sel_result[k] = sel_args.messages[b]

\* C36: on every path select_relevant_messages returns a duplicate-free
\* subsequence of the stored turns, oldest first, and on a memory of more than
\* max_messages turns it returns at most max_messages turns.
C36_BoundedChronologicalSubsequence ==
    sel_status = "returned"
        => /\ ChronologicalSubsequence
           /\ Len(sel_args.messages) > sel_args.config.max_messages
                => Len(sel_result) <= sel_args.config.max_messages

\* C37: on a memory of more than max_messages turns, when the provider fails
\* or no similarity reaches the threshold, exactly the max_messages most recent
\* turns are returned.
C37_RecencyFallback ==
    (OverLimit /\ sel_args.config.use_embeddings
       /\ (~sel_args.embed_ok \/ Passing = {}))
        => LET n == Len(sel_args.messages)
           IN sel_result = SubSeq(sel_args.messages,
                                  n - sel_args.config.max_messages + 1, n)

\* C38: on a memory of more than max_messages turns of which one at least
\* passes the threshold, only passing turns are selected, as many as
\* max_messages allows, and no passing turn left out has a hybrid score
\* strictly greater than that of a selected one.
C38_TopByHybridScore ==
    (OverLimit /\ Scored /\ Passing # {})
        => LET n == Len(sel_args.messages)
               score(i) == HybridScore(sel_args.config, sel_args.similarities[i], i - 1, n)
           IN /\ Selected \subseteq Passing
              /\ Len(sel_result) = Min2(sel_args.config.max_messages, Cardinality(Passing))
              /\ \A i \in Selected, j \in Passing \ Selected : score(j) <= score(i)

\* Three turns, room for one: the two oldest pass, the oldest with the higher
\* similarity and the higher hybrid score; it is the one selected.
C38_Witness ==
    /\ OverLimit /\ Scored
    /\ Len(sel_args.messages) = 3 /\ sel_args.config.max_messages = 1
    /\ sel_args.similarities = << 2 * DefaultSimilarityThreshold, DefaultSimilarityThreshold, 0 >>
    /\ sel_result = << sel_args.messages[1] >>

\* --------------------------------------------------- run's failures: claims

\* The step in which an exception escapes the body of run r.
Escapes(r) == run[r].pc # "raised" /\ run'[r].pc = "raised"

\* C13: when an exception escapes the run body, the error is recorded, the
\* RunMetrics is finalized with stop reason Error, and the exception is
\* re-raised: the run has ended, it never returns an answer afterwards.
C13_AbortFinalizesError ==
    [][\A r \in Runs :
          /\ Escapes(r)
             => /\ run'[r].metrics.stop_reason = "error"
                /\ run'[r].metrics.finalized > run[r].metrics.finalized
                /\ Len(run'[r].metrics.errors) > Len(run[r].metrics.errors)
                /\ run'[r].metrics.errors[Len(run'[r].metrics.errors)] = "orchestrator"
          /\ (run[r].pc = "raised") => (run'[r] = run[r])]_vars

\* C13 witness: the answer stream raised while it was consumed; the run ended
\* with stop reason Error and without an answer.
C13_Witness ==
    /\ run[1].pc = "raised"
    /\ run[1].stream.kind = "aiter"
    /\ run[1].final_answer = ""
    /\ run[1].metrics.stop_reason = "error"

\* C14: a run whose Answer phase raised or timed out (its result is the failure
\* payload) still returns an answer: it does not end by raising.
C14_PhaseFailureAbsorbed ==
    \A r \in Runs : (run[r].stream.failed /\ Ended(r)) => run[r].pc = "done"

\* C15: finalize is invoked at most once in a run, exactly once when the run
\* has ended, and the stop reason it set is not changed afterwards.
C15_FinalizedOnce ==
    [][\A r \in Runs :
          /\ run'[r].metrics.finalized <= 1
          /\ Ended(r)' => run'[r].metrics.finalized = 1
          /\ (run[r].metrics.stop_reason # "None" /\ run'[r].pc # "idle")
             => run'[r].metrics.stop_reason = run[r].metrics.stop_reason]_vars

\* The turns of run r in a memory.
TurnsOf(mem, r) == { i \in 1..Len(mem.messages) : mem.messages[i].query = r }

\* C16: a run with a session key that got a non-empty final answer returns it,
\* and then the session's memory holds exactly one turn of that run, the last
\* one of the turns that were there when it was appended, and the store maps
\* the key to that memory.
C16_TurnAppendedAndSaved ==
    \A r \in Runs :
        (Ended(r) /\ run[r].session \in Keys /\ run[r].final_answer # "")
        => /\ run[r].pc = "done"
           /\ Cardinality(TurnsOf(mems[run[r].history], r)) = 1
           /\ store[run[r].session] = run[r].history

\* ------------------------------------------------ ephemeral memory: claims

\* The run was started without a session_id.
Ephemeral(r) == run[r].pc # "idle" /\ run[r].session = NoSession

\* C30: a run without a session key gets a memory without turns that no other
\* run and no session ever holds, and no step of the run changes the session
\* store's entries or locks.
C30_EphemeralMemory ==
    /\ [](\A r \in Runs :
            Ephemeral(r) =>
              /\ \A r2 \in Runs \ {r} : run[r2].history # run[r].history
              /\ \A k \in Keys : store[k] # run[r].history)
    /\ [][\A r \in Runs :
            (run'[r] # run[r] /\ run'[r].session = NoSession) =>
              /\ store' = store
              /\ locks' = locks
              /\ lock_owner' = lock_owner
              /\ (run[r].pc = "idle") => (mems'[run'[r].history] = NewMemory)]_vars

\* A run without a session has returned, its turn in its own memory, next to
\* a run that saved its session.
C30_Witness ==
    /\ Ephemeral(1)
    /\ run[1].pc = "done"
    /\ Len(mems[run[1].history].messages) = 1
    /\ run[2].session = "k1"
    /\ run[2].pc = "done"
    /\ store["k1"] = run[2].history
    /\ locks["k1"] # NoLock

\* ================================================================ callbacks

\* The callbacks that raise during a run: all of them, or one.
CallbackRaisers == { CallbackNames } \cup { {n} : n \in CallbackNames }

\* Two Run calls, every callback supplied: those of run 1 return, those of
\* run 2 raise.  What the phases return is logged.
InitCallbacks ==
    /\ max_iterations = 1
    /\ \E has \in BOOLEAN, raisers \in CallbackRaisers :
         workload = [runs |-> Runs, skips |-> {PhaseNames, {}}, outcomes |-> {"ok"},
                     has_add_agent_message |-> has, summarization |-> TRUE,
                     callbacks |->
                       [r \in Runs |->
                          [supplied |-> CallbackNames,
                           raising |-> IF r = 1 THEN {} ELSE raisers]],
                     logged |-> TRUE,
                     default_reflect |-> FALSE]
    /\ store = [k \in Keys |-> 0]
    /\ locks = [k \in Keys |-> NoLock]
    /\ lock_owner = [l \in LockIds |-> 0]
    /\ mems = [r \in Runs |-> NewMemory]
    /\ run = [r \in Runs |-> IdleRun]
    /\ clears = 0
    /\ MemoryAtRest
    /\ AnalyzerAtRest
    /\ PureAtRest

SpecCallbacks == InitCallbacks /\ [][SessionsNext]_vars

\* ------------------------------------------------------- callbacks: claims

\* What a caller sees of an ended run: how it ended, the phases it ran, the
\* metrics with the stop reason, the answer, the task results, and the turns
\* and id counter of its memory.
Seen(r) ==
    [pc |-> run[r].pc, calls |-> run[r].calls, metrics |-> run[r].metrics,
     final_answer |-> run[r].final_answer, task_results |-> run[r].task_results,
     completed_plans |-> run[r].completed_plans, iteration |-> run[r].iteration,
     turns |-> Len(mems[run[r].history].messages),
     next_id |-> mems[run[r].history].next_id]

\* The two runs were given the same arguments and their phases returned the
\* same things, each run on a memory of its own.
SameInputs(r1, r2) ==
    /\ run[r1].skip = run[r2].skip
    /\ run[r1].log = run[r2].log
    /\ run[r1].history # run[r2].history

\* C25: callbacks that raise do not steer a run: two ended runs with the same
\* arguments and the same phase results, on memories of their own, ran the
\* same phases, stopped for the same reason, returned the same answer and left
\* the same memory, whether their callbacks returned or raised.
C25_CallbacksNeverSteer ==
    \A r1, r2 \in Runs :
        (Ended(r1) /\ Ended(r2) /\ SameInputs(r1, r2)) => Seen(r1) = Seen(r2)

\* Both runs ended after the same phases returned the same things; the
\* callbacks of one returned, callbacks of the other raised and were logged.
C25_Witness ==
    /\ Ended(1) /\ Ended(2) /\ SameInputs(1, 2)
    /\ run[1].pc = "done"
    /\ run[1].log # <<>>
    /\ run[1].warnings = 0
    /\ run[2].warnings > 0
    /\ run[1].fired["on_phase_start"] > 0

\* C26: a supplied on_metrics_update is called exactly once in every run,
\* however the run ends, and the metrics are finalized by then.
C26_MetricsCallbackOncePerRun ==
    \A r \in Runs :
        (Ended(r) /\ "on_metrics_update" \in run[r].cb.supplied)
            => /\ run[r].fired["on_metrics_update"] = 1
               /\ run[r].metrics.stop_reason # "None"

\* ============================================================= ToolExecutor

\* What execute_tool may be given as tool_name: no usable name (not a str, or
\* blank), a name absent from the registry, or the name of a registered tool
\* whose run is a plain method, whose run is an async def, or that has no run.
ToolNameKinds == {"invalid", "unregistered", "sync", "async", "stub"}

\* args: None, a dict, or something else.
ToolArgKinds == {"None", "dict", "list"}

\* What the tool's run raises each time its body runs.
ToolFaults == {"none", "TimeoutError", "ConnectionError", "ValueError"}

\* execute_tool(self, tool_name, args), line 28: the positional arguments it
\* takes after self.
ExecuteToolArity == 2

\* original_execute(tool_name, params, context), line 335: the positional
\* arguments the retry wrapper passes.
WrapperPasses == 3

\* stop_after_attempt(3), line 328.
StopAfterAttempt == 3

\* retry_if_exception_type((ConnectionError, TimeoutError)), line 330.
RetriedErrors == {"ConnectionError", "TimeoutError"}

\* The body of execute_tool, tool_executor.py lines 38-95.  A bound method has
\* no __await__ (line 72), async or not, so run is always called as a plain
\* function: for an async def that only creates the coroutine, which goes
\* into the result unawaited, and the tool's body never runs.
ExecuteToolBody(call) ==
    LET failure == [ToolPending EXCEPT !.status = "returned", !.failed = TRUE, !.error = TRUE]
        success == [ToolPending EXCEPT !.status = "returned"]
    IN IF call.name = "invalid" THEN failure
       ELSE IF call.args = "list" THEN failure
       ELSE IF call.name = "unregistered" THEN failure
       ELSE IF call.name = "stub" THEN success
       ELSE IF call.name = "async" THEN [success EXCEPT !.invocations = 1]
       ELSE IF call.fault = "none" THEN [success EXCEPT !.invocations = 1]
       ELSE [failure EXCEPT !.invocations = 1]

\* A call of the bound method execute_tool with n positional arguments.
OriginalExecute(call, n) ==
    IF n # ExecuteToolArity
    THEN [ToolPending EXCEPT !.status = "raised", !.raised = "TypeError"]
    ELSE ExecuteToolBody(call)

\* execute_with_retry, orchestrator.py lines 327-335, from the given attempt
\* on: tenacity calls the function again while it raises one of the retried
\* errors and attempts remain, and re-raises otherwise.
RECURSIVE ExecuteWithRetry(_, _, _)
ExecuteWithRetry(call, attempt, invocations) ==
    LET out == OriginalExecute(call, WrapperPasses)
        total == invocations + out.invocations
    IN IF out.status = "raised" /\ out.raised \in RetriedErrors /\ attempt < StopAfterAttempt
       THEN ExecuteWithRetry(call, attempt + 1, total)
       ELSE [out EXCEPT !.attempts = attempt, !.invocations = total]

\* tool_executor.execute_tool(tool_name, params): the method of a ToolExecutor
\* as built, or as the Orchestrator installs it (line 337).
ExecuteToolOf(call) ==
    IF call.installed THEN ExecuteWithRetry(call, 1, 0)
    ELSE [OriginalExecute(call, ExecuteToolArity) EXCEPT !.attempts = 1]

ToolCalls == [name : ToolNameKinds, args : ToolArgKinds, fault : ToolFaults,
              installed : BOOLEAN]

InitTool ==
    /\ tool_call \in ToolCalls
    /\ tool_out = ToolPending
    /\ MemoryAtRest
    /\ AnalyzerAtRest
    /\ RunsAtRest
    /\ ExecutorAtRest
    /\ SelectorAtRest
    /\ EmbeddingAtRest
    /\ RedisAtRest
    /\ LlmAtRest

\* One call of execute_tool.
ExecuteToolCall ==
    /\ tool_out.status = "called"
    /\ tool_out' = ExecuteToolOf(tool_call)
    /\ UNCHANGED << tool_call, memVars, anVars, runVars, exVars, selVars,
                    embVars, redisVars, llmVars >>

ToolNext == ExecuteToolCall

SpecTool == InitTool /\ [][ToolNext]_vars

\* C23 (as claimed): execute_tool as the Orchestrator installs it returns a
\* failure result (failed and error set) and does not raise when the tool name
\* is not registered or the arguments are not a map.
C23_InstalledToolFailureIsData ==
    (/\ tool_out.status # "called"
     /\ tool_call.installed
     /\ (tool_call.name = "unregistered" \/ tool_call.args = "list"))
        => /\ tool_out.status = "returned"
           /\ tool_out.failed /\ tool_out.error

\* C24 (as claimed): a registered tool whose run fails with a timeout or a
\* connection error every time is invoked 3 times, one that fails with another
\* error once, and in both cases the installed execute_tool returns a failure
\* result instead of raising.
C24_TransientToolErrorRetried ==
    (/\ tool_out.status # "called"
     /\ tool_call.installed
     /\ tool_call.name = "sync" /\ tool_call.args # "list"
     /\ tool_call.fault # "none")
        => /\ tool_out.invocations =
                 IF tool_call.fault \in RetriedErrors THEN StopAfterAttempt ELSE 1
           /\ tool_out.status = "returned"
           /\ tool_out.failed /\ tool_out.error

\* ================================================== CachedEmbeddingProvider

\* _get_cache_key, lines 190-192: the MD5 digest of the text; distinct texts
\* of EmbedTexts have distinct digests.
GetCacheKey(text) == << "md5", text >>

\* Lock.acquire: taken at once when nobody holds or waits for the lock,
\* otherwise the caller waits in line.
Acquire(lock, t) ==
    IF lock.owner = 0 /\ lock.waiters = <<>>
    THEN [lock EXCEPT !.owner = t]
    ELSE [lock EXCEPT !.waiters = Append(@, t)]

\* Lock.release: the first waiter is woken.
Release(lock) == [lock EXCEPT !.owner = 0]

\* The lock can go to waiter t.
Woken(lock, t) == lock.owner = 0 /\ lock.waiters # <<>> /\ Head(lock.waiters) = t

Handed(lock, t) == [owner |-> t, waiters |-> Tail(lock.waiters)]

\* The argument lists of embed_batch.
EmbedBatches == { <<>> } \cup { << x >> : x \in EmbedTexts }
                         \cup { << x, y >> : x, y \in EmbedTexts }

\* uncached_indices, line 254.
UncachedIndices(texts, cache) ==
    { i \in 1..Len(texts) : GetCacheKey(texts[i]) \notin cache }

\* The texts of one self._model.encode call counted: each text of the list
\* handed to it is encoded.
Encode(encoded, texts, indices) ==
    [x \in EmbedTexts |->
        encoded[x] + Cardinality({ i \in indices : texts[i] = x })]

\* embed(text), lines 213-225: a cached text is returned; otherwise the lock
\* is taken (the second look at the cache, line 224, directly follows the
\* first when the lock is free) and _load_model and run_in_executor awaited.
EmbedCall(t) ==
    /\ emb_task[t].pc = "idle"
    /\ emb_calls < MaxEmbedCalls
    /\ emb_calls' = emb_calls + 1
    /\ \E x \in EmbedTexts :
         IF GetCacheKey(x) \in emb_cache
         THEN UNCHANGED << emb_task, emb_lock >>
         ELSE LET lock == Acquire(emb_lock, t)
              IN /\ emb_lock' = lock
                 /\ emb_task' = [emb_task EXCEPT ![t] =
                      [pc |-> IF lock.owner = t THEN "embed_encode" ELSE "embed_wait",
                       texts |-> << x >>, uncached |-> {1}]]
    /\ UNCHANGED << emb_cache, emb_encoded, memVars, anVars, runVars, exVars, selVars,
                    toolVars, redisVars, llmVars >>

\* Lines 222-227: embed got the lock it waited for and looks again.
EmbedLocked(t) ==
    /\ emb_task[t].pc = "embed_wait"
    /\ Woken(emb_lock, t)
    /\ IF GetCacheKey(emb_task[t].texts[1]) \in emb_cache
       THEN /\ emb_lock' = Release(Handed(emb_lock, t))
            /\ emb_task' = [emb_task EXCEPT ![t] = IdleEmbed]
       ELSE /\ emb_lock' = Handed(emb_lock, t)
            /\ emb_task' = [emb_task EXCEPT ![t].pc = "embed_encode"]
    /\ UNCHANGED << emb_cache, emb_encoded, emb_calls, memVars, anVars, runVars,
                    exVars, selVars, toolVars, redisVars, llmVars >>

\* Lines 229-241 and 262-280: the model encoded the texts; they are cached,
\* the lock is released.
Encoded(t) ==
    /\ emb_task[t].pc \in {"embed_encode", "batch_encode"}
    /\ emb_encoded' = Encode(emb_encoded, emb_task[t].texts, emb_task[t].uncached)
    /\ emb_cache' = emb_cache \cup
                      { GetCacheKey(emb_task[t].texts[i]) : i \in emb_task[t].uncached }
    /\ emb_lock' = Release(emb_lock)
    /\ emb_task' = [emb_task EXCEPT ![t] = IdleEmbed]
    /\ UNCHANGED << emb_calls, memVars, anVars, runVars, exVars, selVars, toolVars,
                    redisVars, llmVars >>

\* embed_batch(texts), lines 243-263: an empty list and a list of cached
\* texts return at once; otherwise the lock is asked for.
EmbedBatchCall(t) ==
    /\ emb_task[t].pc = "idle"
    /\ emb_calls < MaxEmbedCalls
    /\ emb_calls' = emb_calls + 1
    /\ \E texts \in EmbedBatches :
         LET uncached == UncachedIndices(texts, emb_cache)
         IN IF uncached = {}
            THEN UNCHANGED << emb_task, emb_lock >>
            ELSE LET lock == Acquire(emb_lock, t)
                 IN /\ emb_lock' = lock
                    /\ emb_task' = [emb_task EXCEPT ![t] =
                         [pc |-> IF lock.owner = t THEN "batch_encode" ELSE "batch_wait",
                          texts |-> texts, uncached |-> uncached]]
    /\ UNCHANGED << emb_cache, emb_encoded, memVars, anVars, runVars, exVars, selVars,
                    toolVars, redisVars, llmVars >>

\* Lines 263-264: embed_batch got the lock it waited for; the indices it
\* computed before waiting are the ones encoded.
BatchLocked(t) ==
    /\ emb_task[t].pc = "batch_wait"
    /\ Woken(emb_lock, t)
    /\ emb_lock' = Handed(emb_lock, t)
    /\ emb_task' = [emb_task EXCEPT ![t].pc = "batch_encode"]
    /\ UNCHANGED << emb_cache, emb_encoded, emb_calls, memVars, anVars, runVars,
                    exVars, selVars, toolVars, redisVars, llmVars >>

InitEmbedding ==
    /\ EmbeddingAtRest
    /\ MemoryAtRest
    /\ AnalyzerAtRest
    /\ RunsAtRest
    /\ ExecutorAtRest
    /\ SelectorAtRest
    /\ ToolAtRest
    /\ RedisAtRest
    /\ LlmAtRest

EmbeddingNext ==
    \E t \in Tasks :
        \/ EmbedCall(t)
        \/ EmbedLocked(t)
        \/ EmbedBatchCall(t)
        \/ BatchLocked(t)
        \/ Encoded(t)

SpecEmbedding == InitEmbedding /\ [][EmbeddingNext]_vars

\* C27 (as claimed): whatever the sequence and interleaving of embed and
\* embed_batch calls, the model is asked to encode each text at most once.
C27_EachTextEncodedOnce == \A x \in EmbedTexts : emb_encoded[x] <= 1

\* ======================================================= RedisSessionStore

RedisModels == {"m1", "m2"}

\* The MessageHistory objects given to set, and to get as default.
RedisHistories ==
    { History(m, ids, FALSE) : m \in RedisModels, ids \in { <<>>, << 0 >>, << 0, 1 >> } }

\* json.dumps(data), lines 157-169: of each message the id, query, answer and
\* summary are written, the timestamp is not.
Dumps(history) == [kind |-> "json", model |-> history.model, ids |-> history.ids]

\* bool(history): MessageHistory.__bool__, message_history.py lines 769-770.
NonEmpty(history) == history.ids # <<>>

\* default or MessageHistory(), lines 142 and 145.
DefaultOrNew(given, default) ==
    IF given /\ NonEmpty(default) THEN default ELSE History("none", <<>>, TRUE)

\* Message(**msg_data), line 138: the stored message has no timestamp, which
\* Message requires (message_history.py line 34), so the call raises TypeError.
RestoreRaises(data) == data.ids # <<>>

\* get(session_id, default), lines 115-145.  fault: client.get raises.
RedisGet(data, given, default, fault) ==
    [raised |-> FALSE,
     result |-> IF fault \/ data.kind \in {"missing", "empty"} \/ RestoreRaises(data)
                THEN DefaultOrNew(given, default)
                ELSE History(data.model, data.ids, TRUE)]

\* The failure of client.setex raised to the caller.
RedisSet_Raising(data, history, fault) ==
    IF fault THEN [raised |-> TRUE, data |-> data]
    ELSE [raised |-> FALSE, data |-> Dumps(history)]

\* set(session_id, history), lines 147-172.  fault: client.setex raises; the
\* value under the key is then the one before.
RedisSet(data, history, fault) ==
    IF fault THEN [raised |-> FALSE, data |-> data]
    ELSE [raised |-> FALSE, data |-> Dumps(history)]

\* A RedisSessionStore on a Redis that holds nothing, or empty strings.
InitRedis ==
    /\ redis_data \in [Keys -> {RedisMissing, RedisEmpty}]
    /\ redis_out = NoRedisCall
    /\ MemoryAtRest
    /\ AnalyzerAtRest
    /\ RunsAtRest
    /\ ExecutorAtRest
    /\ SelectorAtRest
    /\ ToolAtRest
    /\ EmbeddingAtRest
    /\ LlmAtRest

notRedis == << memVars, anVars, runVars, exVars, selVars, toolVars, embVars, llmVars >>

RedisGetCall ==
    /\ \E k \in Keys, given \in BOOLEAN, default \in RedisHistories, fault \in BOOLEAN :
         LET out == RedisGet(redis_data[k], given, default, fault)
         IN redis_out' = [op |-> "get", key |-> k, fault |-> fault,
                          before |-> redis_data[k], after |-> redis_data[k],
                          arg |-> IF given THEN default ELSE NoDefault,
                          given |-> given, result |-> out.result,
                          raised |-> out.raised,
                          new_sessions |-> redis_out.new_sessions
                                             \/ redis_data[k].kind = "missing"]
    /\ UNCHANGED << redis_data, notRedis >>

RedisSetCall ==
    /\ \E k \in Keys, history \in RedisHistories, fault \in BOOLEAN :
         LET out == RedisSet(redis_data[k], history, fault)
         IN /\ redis_data' = [redis_data EXCEPT ![k] = out.data]
            /\ redis_out' = [op |-> "set", key |-> k, fault |-> fault,
                             before |-> redis_data[k], after |-> out.data,
                             arg |-> history, given |-> TRUE, result |-> history,
                             raised |-> out.raised,
                             new_sessions |-> redis_out.new_sessions]
    /\ UNCHANGED notRedis

\* The key's time to live (setex, line 170) is over.
RedisExpire ==
    /\ \E k \in Keys :
         /\ redis_data[k].kind = "json"
         /\ redis_data' = [redis_data EXCEPT ![k] = RedisMissing]
    /\ UNCHANGED << redis_out, notRedis >>

RedisNext == RedisGetCall \/ RedisSetCall \/ RedisExpire

SpecRedis == InitRedis /\ [][RedisNext]_vars

\* C28: get(key) on a key whose stored value is missing or empty returns a
\* MessageHistory made by the call, without turns and with id counter 0, and
\* does not raise; a set whose write fails does not raise, leaves the stored
\* value as it was and leaves the caller's MessageHistory as it was.
C28_MissingIsNewAndWriteFailureSilent ==
    /\ (/\ redis_out.op = "get"
        /\ redis_out.before.kind \in {"missing", "empty"}
        /\ ~redis_out.given)
         => /\ ~redis_out.raised
            /\ redis_out.result.fresh
            /\ redis_out.result.ids = <<>>
            /\ redis_out.result.next_id = 0
    /\ (redis_out.op = "set" /\ redis_out.fault)
         => /\ ~redis_out.raised
            /\ redis_out.after = redis_out.before
            /\ redis_out.result = redis_out.arg

\* C39: a get without a backend failure on a key that holds what a set wrote
\* returns a MessageHistory with the turns (their ids, in order) that were
\* written, and an id counter greater than every id among them.
C39_SetThenGetRestores ==
    (redis_out.op = "get" /\ ~redis_out.fault /\ redis_out.before.kind = "json")
        => /\ ~redis_out.raised
           /\ redis_out.result.ids = redis_out.before.ids
           /\ \A i \in 1..Len(redis_out.before.ids) :
                 redis_out.result.next_id > redis_out.before.ids[i]

\* A get has found nothing under its key, and now a set of a history with
\* other turns has failed on a key that holds a session.
C28_Witness ==
    /\ redis_out.new_sessions
    /\ redis_out.op = "set" /\ redis_out.fault
    /\ redis_out.before.kind = "json"
    /\ NonEmpty(redis_out.arg)
    /\ redis_out.arg.ids # redis_out.before.ids

\* ================================================================ call_llm

\* LLMConfig.retry_attempts, model/llm.py line 277.
DefaultRetryAttempts == 3

\* What client.messages.create raises under asyncio.wait_for: the exception's
\* type (asyncio.TimeoutError is wait_for's own) and what its text says.
LlmErrorTypes == {"asyncio.TimeoutError", "ConnectionError", "APIError"}

LlmErrorTexts == {"rate limit", "timeout", "connection", "other"}

\* _classify_error, utils/_utils.py lines 288-314: the type of the exception
\* it returns.  A text that speaks of a connection gives a plain LLMError.
ClassifyError(type, says) ==
    IF says = "rate limit" THEN "LLMRateLimitError"
    ELSE IF says = "timeout" \/ type = "asyncio.TimeoutError" THEN "LLMTimeoutError"
    ELSE IF says = "connection" THEN "LLMError"
    ELSE type

\* _make_request, lines 189-239: what a failed request raises.
RequestRaises(type, says) ==
    IF type = "asyncio.TimeoutError" THEN "LLMTimeoutError"
    ELSE ClassifyError(type, says)

\* retry_if_exception_type(...), line 186.
LlmRetried == {"LLMRateLimitError", "LLMTimeoutError", "ConnectionError"}

ShouldRetry(raised) == raised \in LlmRetried

\* The names bound in model/llm.py (lines 9 and 45) among those call_llm's
\* except clauses use.
LlmNames == {"LLMError", "LLMRateLimitError", "LLMTimeoutError", "LLMParseError"}

\* The decorated _make_request, lines 179-239, from request number attempt on:
\* the first call.failures requests fail; reraise=True raises the last error.
RECURSIVE MakeRequest(_, _)
MakeRequest(call, attempt) ==
    IF attempt > call.failures
    THEN [status |-> "returned", attempts |-> attempt, raised |-> "none",
          last_error |-> "none"]
    ELSE LET raised == RequestRaises(call.type, call.says)
         IN IF ShouldRetry(raised) /\ attempt < call.retry_attempts
            THEN MakeRequest(call, attempt + 1)
            ELSE [status |-> "raised", attempts |-> attempt, raised |-> raised,
                  last_error |-> raised]

\* Lines 241-250: an exception out of _make_request reaches except RetryError,
\* a name model/llm.py does not bind, and NameError is raised in its place.
CallLlm(call) ==
    LET out == MakeRequest(call, 1)
    IN IF out.status = "raised" /\ "RetryError" \notin LlmNames
       THEN [out EXCEPT !.raised = "NameError"]
       ELSE out

LlmCalls ==
    [type : LlmErrorTypes, says : LlmErrorTexts, failures : 0..MaxFailures,
     retry_attempts : 1..DefaultRetryAttempts]

InitLlm ==
    /\ llm_call \in LlmCalls
    /\ llm_out = LlmPending
    /\ MemoryAtRest
    /\ AnalyzerAtRest
    /\ RunsAtRest
    /\ ExecutorAtRest
    /\ SelectorAtRest
    /\ ToolAtRest
    /\ EmbeddingAtRest
    /\ RedisAtRest

\* One call of call_llm.
CallLlmCall ==
    /\ llm_out.status = "called"
    /\ llm_out' = CallLlm(llm_call)
    /\ UNCHANGED << llm_call, memVars, anVars, runVars, exVars, selVars, toolVars,
                    embVars, redisVars >>

LlmNext == CallLlmCall

SpecLlm == InitLlm /\ [][LlmNext]_vars

\* The provider's error is one of rate limit, timeout or connection.
Transient(call) ==
    \/ call.type \in {"asyncio.TimeoutError", "ConnectionError"}
    \/ call.says \in {"rate limit", "timeout", "connection"}

\* C29 (as claimed): a request failing with a rate limit, timeout or
\* connection error is made again until it succeeds or retry_attempts requests
\* were made, and then the error is raised to the caller; a request failing
\* with another error is made once.
C29_TransientErrorRetried ==
    (llm_out.status # "called" /\ llm_call.failures > 0) =>
        IF Transient(llm_call)
        THEN /\ llm_out.attempts = Min2(llm_call.failures + 1, llm_call.retry_attempts)
             /\ (llm_call.failures >= llm_call.retry_attempts) =>
                    /\ llm_out.status = "raised"
                    /\ llm_out.raised = llm_out.last_error
        ELSE llm_out.attempts = 1

\* --------------------------------------------------- task results: claims

\* C22 (as claimed): within one run no key of task_results is ever removed,
\* and an entry written during one iteration is never written again during a
\* later one.
C22_ResultsNeverCollide ==
    /\ [][\A r \in Runs : run[r].pc # "idle" => run[r].task_results \subseteq run'[r].task_results]_vars
    /\ [](\A r \in Runs : \A w1, w2 \in run[r].writes : w1[1] = w2[1] => w1[2] = w2[2])

====
